---- MODULE Spec2Model ----
(***************************************************************************)
(* click2save: the stream grouping / video classification logic of the     *)
(* browser extension (chrome-extension/content.js) and of the backend      *)
(* (controllers/analyseLink, utils/process.utils).                         *)
(*                                                                         *)
(* JavaScript strings are sequences of one-character strings, so that the  *)
(* regular expressions of the source are modelled character by character.  *)
(***************************************************************************)
EXTENDS Integers, Sequences, FiniteSets, TLC

\* ------------------------------------------------------------------------
\* Characters and the character classes of the regular expressions
\* ------------------------------------------------------------------------
LowerSeq == <<"a","b","c","d","e","f","g","h","i","j","k","l","m","n","o","p","q","r","s","t","u","v","w","x","y","z">>
UpperSeq == <<"A","B","C","D","E","F","G","H","I","J","K","L","M","N","O","P","Q","R","S","T","U","V","W","X","Y","Z">>
DigitSeq == <<"0","1","2","3","4","5","6","7","8","9">>

Range(f) == { f[i] : i \in DOMAIN f }

\* \d
Digits == Range(DigitSeq)
\* [a-zA-Z0-9]
AlnumChars == Range(LowerSeq) \cup Range(UpperSeq) \cup Digits
\* \w
WordChars == AlnumChars \cup {"_"}
\* code points the URL parser accepts in a host name
HostChars == AlnumChars \cup {".", "-"}

\* String.prototype.toLowerCase, one character
ToLowerChar(ch) ==
  IF \E i \in DOMAIN UpperSeq : UpperSeq[i] = ch
  THEN LowerSeq[CHOOSE i \in DOMAIN UpperSeq : UpperSeq[i] = ch]
  ELSE ch

ToLowerCase(s) == SubSeq([ i \in DOMAIN s |-> ToLowerChar(s[i]) ], 1, Len(s))

\* ------------------------------------------------------------------------
\* Regular-expression building blocks
\* ------------------------------------------------------------------------
RECURSIVE RunLen(_, _, _)
\* the length of the longest run of characters of class C that starts at s[i]
\* (what a greedy C+ consumes there)
RunLen(s, i, C) ==
  IF i < 1 \/ i > Len(s) THEN 0
  ELSE IF s[i] \notin C THEN 0
  ELSE 1 + RunLen(s, i + 1, C)

\* the literal lit occurs in s at position i
MatchAt(s, i, lit) ==
  /\ i >= 1
  /\ i + Len(lit) - 1 <= Len(s)
  /\ \A k \in 1..Len(lit) : s[i + k - 1] = lit[k]

\* the same under the /i flag (lit is given in lower case)
MatchAtI(s, i, lit) ==
  /\ i >= 1
  /\ i + Len(lit) - 1 <= Len(s)
  /\ \A k \in 1..Len(lit) : ToLowerChar(s[i + k - 1]) = lit[k]

RECURSIVE FirstFrom(_, _, _)
\* the first position i..n that satisfies P, 0 when there is none
FirstFrom(P(_), i, n) ==
  IF i > n THEN 0 ELSE IF P(i) THEN i ELSE FirstFrom(P, i + 1, n)

\* the leftmost position 1..n that satisfies P, 0 when there is none
\* (a regular expression matches at the leftmost possible position)
FirstPos(P(_), n) == FirstFrom(P, 1, n)

\* String.prototype.includes
Includes(s, lit) == \E i \in 1..Len(s) : MatchAt(s, i, lit)

\* s.replace(/<pattern>.*$/, '') where the pattern first matches at position i
\* (0: no match, s is returned unchanged)
CutAt(s, i) == IF i = 0 THEN s ELSE SubSeq(s, 1, i - 1)

\* /^\d+$/
AllDigits(s) == Len(s) > 0 /\ RunLen(s, 1, Digits) = Len(s)

RECURSIVE SplitSlash(_, _)
\* s.split('/') : cur is the piece being collected
SplitSlash(s, cur) ==
  IF s = <<>> THEN <<cur>>
  ELSE IF Head(s) = "/" THEN <<cur>> \o SplitSlash(Tail(s), <<>>)
  ELSE SplitSlash(Tail(s), Append(cur, Head(s)))

\* pathname.split('/').filter(s => s.length > 0)
PathSegments(pathname) == SelectSeq(SplitSlash(pathname, <<>>), LAMBDA x : Len(x) > 0)

RECURSIVE JoinSlash(_)
\* segments.join('/')
JoinSlash(segs) ==
  IF segs = <<>> THEN <<>>
  ELSE IF Len(segs) = 1 THEN segs[1]
  ELSE segs[1] \o <<"/">> \o JoinSlash(Tail(segs))

RECURSIVE NumberToString(_)
\* the decimal digits of a non-negative integer (template literal `${Date.now()}`)
NumberToString(n) ==
  IF n < 10 THEN <<DigitSeq[n + 1]>>
  ELSE Append(NumberToString(n \div 10), DigitSeq[(n % 10) + 1])

\* ------------------------------------------------------------------------
\* new URL(url): scheme "https://", a non-empty host, then an optional path
\* and an optional ?query. Any other string makes the constructor throw
\* (ok = FALSE). Percent-encoding and dot-segment removal are not modelled:
\* the URLs considered need neither.
\* ------------------------------------------------------------------------
Scheme == <<"h","t","t","p","s",":","/","/">>

ParseURL(url) ==
  LET hostStart == Len(Scheme) + 1
      hostLen   == RunLen(url, hostStart, HostChars)
      pathStart == hostStart + hostLen
      query     == FirstPos(LAMBDA i : url[i] = "?", Len(url))
      pathEnd   == IF query = 0 THEN Len(url) ELSE query - 1
      wellFormed ==
        /\ MatchAt(url, 1, Scheme)
        /\ hostLen > 0
        /\ \/ pathStart > Len(url)
           \/ url[pathStart] \in {"/", "?"}
  IN IF ~wellFormed
     THEN [ok |-> FALSE, hostname |-> <<>>, pathname |-> <<>>]
     ELSE [ok |-> TRUE,
           hostname |-> ToLowerCase(SubSeq(url, hostStart, pathStart - 1)),
           pathname |-> IF pathEnd < pathStart THEN <<"/">>
                        ELSE SubSeq(url, pathStart, pathEnd)]

\* ------------------------------------------------------------------------
\* getVideoGroupingKey: the five strategies (content.js and process.utils)
\* A capture is the empty sequence when its pattern does not match; every
\* capture group below is non-empty when it matches.
\* ------------------------------------------------------------------------
Str_video     == <<"v","i","d","e","o">>
Str_watch     == <<"w","a","t","c","h">>
Str_v         == <<"v">>
Str_playlist  == <<"p","l","a","y","l","i","s","t">>
Str_chunklist == <<"c","h","u","n","k","l","i","s","t">>
Str_index     == <<"i","n","d","e","x">>
Str_master    == <<"m","a","s","t","e","r">>
Str_seg       == <<"s","e","g","-">>
Str_m3u8      == <<".","m","3","u","8">>
Str_unknown   == <<"u","n","k","n","o","w","n","-">>
Str_stream    == <<"s","t","r","e","a","m">>

\* /\/kw[_-]?(\w+)/i tried at position i: "/", the keyword, an optional "_" or
\* "-" (given back when no word character follows it), then the word run
KeywordIdAt(p, i, kw) ==
  LET j == i + 1 + Len(kw)
  IN IF ~(MatchAt(p, i, <<"/">>) /\ MatchAtI(p, i + 1, kw)) THEN <<>>
     ELSE IF MatchAt(p, j, <<"_">>) \/ MatchAt(p, j, <<"-">>)
          THEN IF RunLen(p, j + 1, WordChars) > 0
               THEN SubSeq(p, j + 1, j + RunLen(p, j + 1, WordChars))
               ELSE SubSeq(p, j, j - 1 + RunLen(p, j, WordChars))
          ELSE SubSeq(p, j, j - 1 + RunLen(p, j, WordChars))

\* pathname.match(/\/kw[_-]?(\w+)/i)[1]
KeywordId(p, kw) ==
  LET i == FirstPos(LAMBDA k : KeywordIdAt(p, k, kw) # <<>>, Len(p))
  IN IF i = 0 THEN <<>> ELSE KeywordIdAt(p, i, kw)

\* pathname.match(/\/(\w{8,})/)[1]
LongId(p) ==
  LET i == FirstPos(LAMBDA k : p[k] = "/" /\ RunLen(p, k + 1, WordChars) >= 8, Len(p))
  IN IF i = 0 THEN <<>> ELSE SubSeq(p, i + 1, i + RunLen(p, i + 1, WordChars))

\* pathname.match(/\/([a-zA-Z0-9]{6,})-/)[1]
DashId(p) ==
  LET i == FirstPos(LAMBDA k : /\ p[k] = "/"
                               /\ RunLen(p, k + 1, AlnumChars) >= 6
                               /\ MatchAt(p, k + 1 + RunLen(p, k + 1, AlnumChars), <<"-">>),
                    Len(p))
  IN IF i = 0 THEN <<>> ELSE SubSeq(p, i + 1, i + RunLen(p, i + 1, AlnumChars))

\* Strategy 1: the captures of videoIdPatterns, in the order of the array
videoIdPatterns(p) ==
  << KeywordId(p, Str_video), KeywordId(p, Str_watch), KeywordId(p, Str_v),
     LongId(p), DashId(p) >>

\* the capture of the first pattern of the array that matches (<<>>: none)
FirstVideoId(p) ==
  LET caps == videoIdPatterns(p)
      k    == FirstPos(LAMBDA n : caps[n] # <<>>, Len(caps))
  IN IF k = 0 THEN <<>> ELSE caps[k]

\* Strategy 2: the chain of .replace(/...$/, '') calls
\* /\/\d+p?\/.*$/
CutQualityDir(s) ==
  CutAt(s, FirstPos(LAMBDA k :
           LET n == RunLen(s, k + 1, Digits)
           IN /\ s[k] = "/"
              /\ n >= 1
              /\ \/ MatchAt(s, k + 1 + n, <<"/">>)
                 \/ MatchAt(s, k + 1 + n, <<"p", "/">>),
         Len(s)))

\* /\/<name>\.m3u8.*$/ for a literal name
CutManifest(s, name) ==
  CutAt(s, FirstPos(LAMBDA k : MatchAt(s, k, <<"/">> \o name \o Str_m3u8), Len(s)))

\* /\/\w+\.m3u8.*$/
CutAnyM3u8(s) ==
  CutAt(s, FirstPos(LAMBDA k :
           LET n == RunLen(s, k + 1, WordChars)
           IN s[k] = "/" /\ n >= 1 /\ MatchAt(s, k + 1 + n, Str_m3u8),
         Len(s)))

\* /\/chunklist.*$/
CutChunklist(s) ==
  CutAt(s, FirstPos(LAMBDA k : MatchAt(s, k, <<"/">> \o Str_chunklist), Len(s)))

\* /\/seg-\d+.*$/
CutSegment(s) ==
  CutAt(s, FirstPos(LAMBDA k : /\ MatchAt(s, k, <<"/">> \o Str_seg)
                               /\ RunLen(s, k + 1 + Len(Str_seg), Digits) >= 1,
                    Len(s)))

\* /\/\d+-\d+.*$/
CutTimestampPair(s) ==
  CutAt(s, FirstPos(LAMBDA k :
           LET n == RunLen(s, k + 1, Digits)
           IN /\ s[k] = "/"
              /\ n >= 1
              /\ MatchAt(s, k + 1 + n, <<"-">>)
              /\ RunLen(s, k + 2 + n, Digits) >= 1,
         Len(s)))

basePath(pathname) ==
  CutTimestampPair(CutSegment(CutChunklist(CutAnyM3u8(
    CutManifest(CutManifest(CutManifest(CutQualityDir(pathname),
      Str_playlist), Str_index), Str_master)))))

\* if (basePath && basePath !== '/' && basePath.length > 5)
BasePathUsable(b) == b # <<>> /\ b # <<"/">> /\ Len(b) > 5

RECURSIVE LastPos(_, _)
\* the largest position 1..n that satisfies P, 0 when there is none
\* (a loop that walks the segments from the last to the first)
LastPos(P(_), n) ==
  IF n < 1 THEN 0 ELSE IF P(n) THEN n ELSE LastPos(P, n - 1)

\* /^\d+-\d+/
StartsWithNumberPair(seg) ==
  LET n == RunLen(seg, 1, Digits)
  IN n >= 1 /\ MatchAt(seg, n + 1, <<"-">>) /\ RunLen(seg, n + 2, Digits) >= 1

\* Strategy 3 of content.js: the "skip file-like segments" test
SkipSegment(seg) ==
  \/ Includes(seg, <<".">>)
  \/ AllDigits(seg)
  \/ Includes(seg, Str_playlist)
  \/ Includes(seg, Str_chunklist)
  \/ Includes(seg, Str_seg)
  \/ StartsWithNumberPair(seg)

\* Strategy 3 of content.js: the index of the segment the loop returns at
\* (0: the loop ends without returning, or there are fewer than 2 segments)
ParentDirIndex(segments) ==
  IF Len(segments) >= 2
  THEN LastPos(LAMBDA i : ~SkipSegment(segments[i]) /\ Len(segments[i]) > 3, Len(segments))
  ELSE 0

\* Strategy 3 of process.utils: no length test on the list, a shorter skip list
ParentDirIndexBackend(segments) ==
  LastPos(LAMBDA i : /\ ~Includes(segments[i], <<".">>)
                     /\ ~AllDigits(segments[i])
                     /\ ~Includes(segments[i], Str_playlist)
                     /\ ~Includes(segments[i], Str_chunklist)
                     /\ Len(segments[i]) > 3,
          Len(segments))

\* Strategy 4: url.match(/(\d{10,13})/)[1]: the leftmost run of at least 10
\* digits, of which the greedy quantifier takes at most 13
timestampMatch(url) ==
  LET i == FirstPos(LAMBDA k : RunLen(url, k, Digits) >= 10, Len(url))
      n == RunLen(url, i, Digits)
  IN IF i = 0 THEN <<>> ELSE SubSeq(url, i, i + (IF n > 13 THEN 13 ELSE n) - 1)

\* Strategy 4: url.match(/(\d{4}-\d{2}-\d{2})/)[1]
dateMatch(url) ==
  LET i == FirstPos(LAMBDA k : /\ RunLen(url, k, Digits) >= 4
                               /\ MatchAt(url, k + 4, <<"-">>)
                               /\ RunLen(url, k + 5, Digits) >= 2
                               /\ MatchAt(url, k + 7, <<"-">>)
                               /\ RunLen(url, k + 8, Digits) >= 2,
                    Len(url))
  IN IF i = 0 THEN <<>> ELSE SubSeq(url, i, i + 9)

\* a faulty variant of Substring0: nothing is cut off
SubstringAll(s, n) == s

\* String.prototype.substring(0, n)
Substring0(s, n) == SubSeq(s, 1, IF Len(s) < n THEN Len(s) ELSE n)

\* a returned value, or an exception that leaves the function
Returned(v) == [threw |-> FALSE, value |-> v]
Thrown      == [threw |-> TRUE, value |-> <<>>]

\* content.js getVideoGroupingKey: the statements of the try block after
\* new URL(url) has succeeded
GroupingKeyStrategies(url, urlObj) ==
  LET pathname == urlObj.pathname
      domain   == urlObj.hostname
      videoId  == FirstVideoId(pathname)
      base     == basePath(pathname)
      segments == PathSegments(pathname)
      i        == ParentDirIndex(segments)
      timeKey  == IF timestampMatch(url) # <<>>
                  THEN Substring0(timestampMatch(url), 8)
                  ELSE dateMatch(url)
  IN IF videoId # <<>> THEN domain \o <<"-">> \o videoId
     ELSE IF BasePathUsable(base) THEN domain \o base
     ELSE IF i # 0 THEN domain \o <<"-">> \o JoinSlash(SubSeq(segments, 1, i))
     ELSE IF timestampMatch(url) # <<>> \/ dateMatch(url) # <<>>
          THEN domain \o <<"-">> \o timeKey
     ELSE IF Len(segments) > 0 THEN domain \o <<"-">> \o segments[1]
     ELSE domain

\* process.utils getVideoGroupingKey: the statements of the try block after
\* new URL(url) has succeeded
GroupingKeyStrategiesBackend(urlObj) ==
  LET pathname == urlObj.pathname
      domain   == urlObj.hostname
      videoId  == FirstVideoId(pathname)
      base     == basePath(pathname)
      segments == PathSegments(pathname)
      i        == ParentDirIndexBackend(segments)
  IN IF videoId # <<>> THEN domain \o <<"-">> \o videoId
     ELSE IF BasePathUsable(base) THEN domain \o base
     ELSE IF i # 0 THEN domain \o <<"-">> \o JoinSlash(SubSeq(segments, 1, i))
     ELSE IF Len(segments) > 0 THEN domain \o <<"-">> \o segments[1]
     ELSE domain

\* Faulty variants of getVideoGroupingKey, which the properties must tell
\* from the code's:
\* the catch block is missing, the TypeError of new URL leaves the function
getVideoGroupingKeyUncaught(stream, dateNow) ==
  IF stream.src = <<>> THEN Returned(Str_unknown \o Str_stream)
  ELSE IF ~ParseURL(stream.src).ok THEN Thrown
  ELSE Returned(GroupingKeyStrategies(stream.src, ParseURL(stream.src)))

\* the key is the host and the whole path, quality directory included
getVideoGroupingKeyWholePath(stream, dateNow) ==
  IF stream.src = <<>> THEN Returned(Str_unknown \o Str_stream)
  ELSE IF ~ParseURL(stream.src).ok THEN Returned(Str_unknown \o NumberToString(dateNow))
  ELSE Returned(ParseURL(stream.src).hostname \o ParseURL(stream.src).pathname)

\* every key carries the time of the call
getVideoGroupingKeyStamped(stream, dateNow) ==
  IF stream.src = <<>> THEN Returned(Str_unknown \o Str_stream)
  ELSE IF ~ParseURL(stream.src).ok THEN Returned(Str_unknown \o NumberToString(dateNow))
  ELSE Returned(GroupingKeyStrategies(stream.src, ParseURL(stream.src))
                  \o <<"-">> \o NumberToString(dateNow))

\* the same fault in process.utils
getVideoGroupingKeyBackendStamped(url, dateNow) ==
  IF ~ParseURL(url).ok THEN Returned(Str_unknown \o NumberToString(dateNow))
  ELSE Returned(GroupingKeyStrategiesBackend(ParseURL(url)) \o <<"-">> \o NumberToString(dateNow))

\* content.js getVideoGroupingKey(stream); dateNow is what Date.now() returns.
\* A missing or empty src is answered before the try block; the TypeError of
\* new URL is caught.
getVideoGroupingKey(stream, dateNow) ==
  IF stream.src = <<>> THEN Returned(Str_unknown \o Str_stream)
  ELSE IF ~ParseURL(stream.src).ok THEN Returned(Str_unknown \o NumberToString(dateNow))
  ELSE Returned(GroupingKeyStrategies(stream.src, ParseURL(stream.src)))

\* process.utils getVideoGroupingKey(url)
getVideoGroupingKeyBackend(url, dateNow) ==
  IF ~ParseURL(url).ok THEN Returned(Str_unknown \o NumberToString(dateNow))
  ELSE Returned(GroupingKeyStrategiesBackend(ParseURL(url)))

\* ------------------------------------------------------------------------
\* extractVideoNameFromGroupingKey (content.js and process.utils)
\* ------------------------------------------------------------------------
Str_mp4         == <<"m","p","4">>
Str_webm        == <<"w","e","b","m">>
Str_VideoStream == <<"V","i","d","e","o"," ","S","t","r","e","a","m">>

\* every character a string of the model is made of
AnyChar == WordChars \cup {"/", ".", "-", " ", "=", "?", ":", "&"}

\* groupingKey.replace(/^[^-]+-/, '')
keyWithoutDomain(groupingKey) ==
  LET n == RunLen(groupingKey, 1, AnyChar \ {"-"})
  IN IF n >= 1 /\ MatchAt(groupingKey, n + 1, <<"-">>)
     THEN SubSeq(groupingKey, n + 2, Len(groupingKey))
     ELSE groupingKey

\* s.replace(/[_-]/g, ' ')
ReplaceSeparators(s) ==
  SubSeq([ i \in DOMAIN s |-> IF s[i] \in {"_", "-"} THEN " " ELSE s[i] ], 1, Len(s))

\* s.replace(/\.(mp4|webm|m3u8).*$/i, '')
CutExtension(s) ==
  CutAt(s, FirstPos(LAMBDA k : /\ s[k] = "."
                               /\ \/ MatchAtI(s, k + 1, Str_mp4)
                                  \/ MatchAtI(s, k + 1, Str_webm)
                                  \/ MatchAtI(s, k + 1, Tail(Str_m3u8)),
                    Len(s)))

RECURSIVE TrimStart(_)
TrimStart(s) == IF s # <<>> /\ Head(s) = " " THEN TrimStart(Tail(s)) ELSE s

RECURSIVE TrimEnd(_)
TrimEnd(s) == IF s # <<>> /\ s[Len(s)] = " " THEN TrimEnd(SubSeq(s, 1, Len(s) - 1)) ELSE s

\* String.prototype.trim
Trim(s) == TrimEnd(TrimStart(s))

\* .replace(/[_-]/g, ' ').replace(/\.(mp4|webm|m3u8).*$/i, '').trim()
CleanName(s) == Trim(CutExtension(ReplaceSeparators(s)))

\* /^\d+p?$/
IsQualityToken(seg) ==
  LET n == RunLen(seg, 1, Digits)
  IN n >= 1 /\ (n = Len(seg) \/ (n + 1 = Len(seg) /\ seg[n + 1] = "p"))

\* "Skip technical segments"
IsTechnicalSegment(seg) ==
  \/ Includes(seg, Str_m3u8)
  \/ Includes(seg, Str_playlist)
  \/ Includes(seg, Str_chunklist)
  \/ IsQualityToken(seg)
  \/ Includes(seg, Str_master)
  \/ Includes(seg, Str_index)

\* the path segments of one stream URL; [] when new URL throws
SegmentsOfUrl(url) ==
  IF ParseURL(url).ok THEN PathSegments(ParseURL(url).pathname) ELSE <<>>

\* the position of the segment the `for` loop of content.js returns the name
\* of (0: the loop ends without returning)
MeaningfulSegment(commonSegments) ==
  FirstPos(LAMBDA k : /\ ~IsTechnicalSegment(commonSegments[k])
                      /\ Len(commonSegments[k]) > 3
                      /\ ~AllDigits(commonSegments[k])
                      /\ Len(CleanName(commonSegments[k])) > 0,
           Len(commonSegments))

\* content.js extractVideoNameFromGroupingKey(groupingKey, streams)
extractVideoNameFromGroupingKey(groupingKey, streams) ==
  LET commonSegments == IF Len(streams) > 0 THEN SegmentsOfUrl(streams[1].src) ELSE <<>>
      i == MeaningfulSegment(commonSegments)
      cleanKey == CleanName(keyWithoutDomain(groupingKey))
  IN IF i # 0 THEN CleanName(commonSegments[i])
     ELSE IF Len(cleanKey) > 0 THEN cleanKey
     ELSE Str_VideoStream

\* process.utils extractVideoNameFromGroupingKey(groupingKey, streams = []):
\* the first meaningful segment is returned as cleaned, empty or not
extractVideoNameFromGroupingKeyBackend(groupingKey, streams) ==
  LET firstSegments == IF Len(streams) > 0 THEN SegmentsOfUrl(streams[1].url) ELSE <<>>
      i == FirstPos(LAMBDA k : /\ ~IsTechnicalSegment(firstSegments[k])
                               /\ Len(firstSegments[k]) > 3
                               /\ ~AllDigits(firstSegments[k]),
                    Len(firstSegments))
      cleanKey == CleanName(keyWithoutDomain(groupingKey))
  IN IF i # 0 THEN CleanName(firstSegments[i])
     ELSE IF cleanKey # <<>> THEN cleanKey
     ELSE Str_VideoStream

\* ------------------------------------------------------------------------
\* Inputs: the URLs, streams and elements the events are drawn from
\* ------------------------------------------------------------------------
Host_cdn == <<"c","d","n",".","x",".","c","o","m">>
Host_ab  == <<"a","-","b",".","i","o">>

Seg_abc12345  == <<"a","b","c","1","2","3","4","5">>
Seg_v1234567  == <<"v","1","2","3","4","5","6","7">>
Seg_Video1234 == <<"V","i","d","e","o","1","2","3","4">>
Seg_720p      == <<"7","2","0","p">>
Seg_1080p     == <<"1","0","8","0","p">>
Seg_hd        == <<"h","d">>
Seg_4k        == <<"4","k">>
Seg_live      == <<"l","i","v","e">>
Seg_show      == <<"s","h","o","w">>
Seg_ab        == <<"a","b">>
Seg_seg12     == <<"s","e","g","-","1","2">>
Seg_a_ts      == <<"a",".","t","s">>
Seg_chunklist_m3u8 == Str_chunklist \o Str_m3u8
Seg_playlist_m3u8  == Str_playlist \o Str_m3u8
Seg_master_m3u8    == Str_master \o Str_m3u8
Query_timestamp    == <<"?","t","=","1","7","0","0","0","0","0","0","0","0","0","0","0">>
Str_notAUrl        == <<"n","o","t"," ","a"," ","u","r","l">>
Str_relativePath   == <<"l","i","v","e","/","a",".","t","s">>

\* "https://" + host + "/" + the segments joined by "/" + query
Url(host, segs, query) ==
  Scheme \o host \o (IF segs = <<>> THEN <<>> ELSE <<"/">> \o JoinSlash(segs)) \o query

\* quality directories (the tokens of the background's extractQualityFromUrl)
QualityDirs == {Seg_720p, Seg_1080p, Seg_hd, Seg_4k}
\* video ids: at least 8 alphanumeric characters
VideoIds == {Seg_abc12345, Seg_v1234567, Seg_Video1234}
Hosts == {Host_cdn, Host_ab}

\* /<id>/<quality>/chunklist.m3u8 on a host
QualityVariant(host, id, q) == Url(host, <<id, q, Seg_chunklist_m3u8>>, <<>>)
QualityVariants == { QualityVariant(h, id, q) : h \in Hosts, id \in VideoIds, q \in QualityDirs }

\* strings that make new URL throw: no scheme, so not an absolute URL
MalformedUrls == {Str_notAUrl, Str_relativePath}

Url_variant720  == QualityVariant(Host_cdn, Seg_abc12345, Seg_720p)
Url_variant1080 == QualityVariant(Host_cdn, Seg_abc12345, Seg_1080p)
Url_live        == Url(Host_cdn, <<Seg_live, Seg_playlist_m3u8>>, <<>>)
Url_master      == Url(Host_cdn, <<Seg_abc12345, Seg_master_m3u8>>, <<>>)
Url_segment     == Url(Host_ab, <<Seg_ab, Seg_seg12>>, <<>>)
Url_timestamp   == Url(Host_cdn, <<Seg_a_ts>>, Query_timestamp)

\* the stream URLs of the mixed scenario: two quality variants of one video,
\* another video, two malformed URLs and a missing (empty) one
MixedUrls == {Url_variant720, Url_variant1080, Url_live} \cup MalformedUrls \cup {<<>>}

\* three well-formed URLs with three different grouping keys, for long lists
CountUrls == {Url_master, Url_live, Url_segment}

\* the URLs of the m3u8Urls entries a client posts to the backend
BackendUrls == {Url_variant720, Url_variant1080, Url_segment, Url_timestamp, Str_notAUrl}

Seg_xyz         == <<"x","y","z">>
Seg_cd          == <<"c","d">>
Seg_ef          == <<"e","f">>
Seg_underscores == <<"_","_","_","_">>
Seg_hyphens     == <<"-","-">>
Seg_index_m3u8  == Str_index \o Str_m3u8

Url_short       == Url(Host_cdn, <<Seg_xyz>>, <<>>)
Url_shortHyphen == Url(Host_ab, <<Seg_xyz>>, <<>>)
Url_basePath    == Url(Host_cdn, <<Seg_ab, Seg_cd, Seg_ef, Seg_index_m3u8>>, <<>>)
Url_underscores == Url(Host_cdn, <<Seg_underscores, Seg_a_ts>>, <<>>)
Url_hyphens     == Url(Host_cdn, <<Seg_hyphens>>, <<>>)

\* the URLs of the streams extractVideoNameFromGroupingKey is called for: a
\* named directory, paths of short segments only (on a host with and without
\* a hyphen, with and without a base path), segments of separators only, a
\* timestamp, a malformed URL
NameUrls ==
  {Url_variant720, Url_live, Url_short, Url_shortHyphen, Url_basePath,
   Url_underscores, Url_hyphens, Url_timestamp, Str_notAUrl}

Query_timestamp10 == <<"?","t","=","1","7","0","0","0","0","0","0","0","0">>
Query_date        == <<"?","d","=","2","0","2","4","-","0","1","-","1","5">>

Url_showPlaylist  == Url(Host_cdn, <<Seg_show, Seg_playlist_m3u8>>, <<>>)
Url_liveChunklist == Url(Host_cdn, <<Seg_live, Seg_chunklist_m3u8>>, <<>>)
Url_showChunklist == Url(Host_cdn, <<Seg_show, Seg_chunklist_m3u8>>, <<>>)
Url_timestamp10   == Url(Host_cdn, <<Seg_a_ts>>, Query_timestamp10)
Url_date          == Url(Host_cdn, <<Seg_a_ts>>, Query_date)

\* manifests of two directories, and files whose only mark is a timestamp or
\* a date in the query
ManifestUrls  == {Url_live, Url_showPlaylist, Url_liveChunklist, Url_showChunklist}
TimestampUrls == {Url_timestamp, Url_timestamp10, Url_date}

\* the URLs getVideoGroupingKey is called with for its later strategies
StrategyUrls == ManifestUrls \cup TimestampUrls \cup {Url_segment}

\* the URLs getVideoGroupingKey is called with directly
KeyUrls == QualityVariants \cup {Url_live, Url_segment, Url_timestamp} \cup MalformedUrls

\* the most entries detectedVideos holds in the mixed scenario
MaxVideos == 3
\* the most entries detectedVideos holds in the counts scenario
MaxCountVideos == 6
\* the most entries of m3u8Urls in a request
MaxM3u8 == 3
\* the last value of the millisecond clock
MaxClock == 1
MaxTabs == 2
MaxRequests == 2
MaxStreams == 3
MaxScan == 2

\* the most entries detectedVideos holds in a scenario
CapacityOf(sc) == IF sc = "counts" THEN MaxCountVideos ELSE MaxVideos

ClockReadings == 0..MaxClock

\* a <video> element of the page: large, playing, with controls
PageVideo ==
  [tagName |-> "VIDEO", className |-> <<"p","l","a","y","e","r">>, id |-> <<>>,
   parentClassName |-> <<>>, src |-> Url(Host_cdn, <<Seg_show>>, <<>>),
   left |-> 100, top |-> 100, width |-> 640, height |-> 360,
   display |-> "block", visibility |-> "visible",
   controls |-> TRUE, autoplay |-> FALSE, paused |-> FALSE, duration |-> 60]

\* what document.querySelectorAll returns in a scan: nothing, the page's
\* video, or a 1x1 tracking iframe and the video
PageScans ==
  { <<>>, <<PageVideo>>,
    <<[PageVideo EXCEPT !.tagName = "IFRAME", !.width = 1, !.height = 1], PageVideo>> }

\* streamData.id of the n-th stream the content script is told of
Str_streamId == <<"s","t","r","e","a","m","_">>
StreamId(n) == Str_streamId \o NumberToString(n)

\* background extractDomain(url): the host name, null (<<>>) when new URL throws
extractDomain(url) == IF ParseURL(url).ok THEN ParseURL(url).hostname ELSE <<>>


\* the clock of the cookie manager is read on up to MaxDays whole consent
\* lifetimes plus up to MaxQuarters quarters of an hour; it handles up to
\* MaxOperations requests and restarts
MaxDays == 1
MaxQuarters == 4
MaxOperations == 3

\* performVideoAnalysis is called up to MaxAnalyses times, and the clock is
\* read over up to MaxCachePeriods lifetimes of a cache entry
MaxAnalyses == 3
MaxCachePeriods == 1

\* selectVideo shows up to MaxSelections consent dialogs
MaxSelections == 2

\* a tab reports up to MaxReported videos
MaxReported == 2
\* ------------------------------------------------------------------------
\* DOM video categorization (content.js VideoDetectionManager)
\* An element is a record of what the code reads from the DOM: its class
\* and id strings, getBoundingClientRect() (left, top, width, height), the
\* computed display / visibility, and the media attributes.
\* ------------------------------------------------------------------------
Str_ad            == <<"a","d">>
Str_advertisement == <<"a","d","v","e","r","t","i","s","e","m","e","n","t">>
Str_sponsored     == <<"s","p","o","n","s","o","r","e","d">>
Str_promo         == <<"p","r","o","m","o">>
Str_banner        == <<"b","a","n","n","e","r">>

adKeywords == {Str_ad, Str_advertisement, Str_sponsored, Str_promo, Str_banner}

\* window.innerWidth / window.innerHeight
Viewport == [innerWidth |-> 1000, innerHeight |-> 800]

hasAdKeywords(element) ==
  LET textContent == ToLowerCase(element.className \o <<" ">> \o element.id
                                 \o <<" ">> \o element.parentClassName)
  IN \E keyword \in adKeywords : Includes(textContent, keyword)

\* videoCenterX = left + width / 2 in (0.2, 0.8) of the viewport width and
\* videoCenterY = top + height / 2 in (0.1, 0.9) of its height; both sides of
\* each comparison are multiplied by 10 to stay in the integers
isCenterOfViewport(rect) ==
  /\ 5 * (2 * rect.left + rect.width) > 2 * Viewport.innerWidth
  /\ 5 * (2 * rect.left + rect.width) < 8 * Viewport.innerWidth
  /\ 5 * (2 * rect.top + rect.height) > 1 * Viewport.innerHeight
  /\ 5 * (2 * rect.top + rect.height) < 9 * Viewport.innerHeight

\* the fields of extractVideoMetadata(element, videoId) that categorizeVideo
\* and isValidVideo read
extractVideoMetadata(element) ==
  [src         |-> element.src,
   duration    |-> element.duration,
   width       |-> element.width,
   height      |-> element.height,
   isPlaying   |-> IF element.tagName = "VIDEO" THEN ~element.paused ELSE FALSE,
   hasControls |-> element.controls,
   isAutoplay  |-> element.autoplay,
   isVisible   |-> element.display # "none" /\ element.visibility # "hidden"]

\* metadata.<flag> in a condition: a property that is absent reads as
\* undefined, which is falsy
Flag(metadata, flag) == IF flag \in DOMAIN metadata THEN metadata[flag] ELSE FALSE

\* a faulty variant of Flag semantics: an absent flag counts as set
FlagOrSet(metadata, flag) == IF flag \in DOMAIN metadata THEN metadata[flag] ELSE TRUE

\* a faulty variant of categorizeVideo: the isBackground test is missing
categorizeVideoWithoutBackground(element, metadata) ==
  LET rect == element
      isLargeVideo == rect.width > 400 /\ rect.height > 200
      hasControls == Flag(metadata, "hasControls")
      isSmallVideo == rect.width < 300 \/ rect.height < 150
      isHidden == ~Flag(metadata, "isVisible") \/ rect.width = 0 \/ rect.height = 0
  IN IF isHidden THEN "hidden"
     ELSE IF hasAdKeywords(element) \/ (Flag(metadata, "isAutoplay") /\ ~hasControls /\ isSmallVideo)
          THEN "advertisement"
     ELSE IF isSmallVideo /\ ~hasControls THEN "thumbnail"
     ELSE IF Flag(metadata, "isPlaying") /\ isLargeVideo /\ hasControls THEN "main"
     ELSE IF isCenterOfViewport(rect) /\ isLargeVideo THEN "main"
     ELSE IF isLargeVideo /\ hasControls THEN "content"
     ELSE "secondary"

\* a faulty variant of categorizeVideo: the playing rule is missing
categorizeVideoWithoutPlaying(element, metadata) ==
  LET rect == element
      isLargeVideo == rect.width > 400 /\ rect.height > 200
      hasControls == Flag(metadata, "hasControls")
      isSmallVideo == rect.width < 300 \/ rect.height < 150
      isBackground == rect.width < 100 \/ rect.height < 100
      isHidden == ~Flag(metadata, "isVisible") \/ rect.width = 0 \/ rect.height = 0
  IN IF isHidden \/ isBackground THEN "hidden"
     ELSE IF hasAdKeywords(element) \/ (Flag(metadata, "isAutoplay") /\ ~hasControls /\ isSmallVideo)
          THEN "advertisement"
     ELSE IF isSmallVideo /\ ~hasControls THEN "thumbnail"
     ELSE IF isCenterOfViewport(rect) /\ isLargeVideo THEN "main"
     ELSE IF isLargeVideo /\ hasControls THEN "content"
     ELSE "secondary"

\* a faulty variant of categorizeVideo: absent flags count as set
categorizeVideoAbsentAsSet(element, metadata) ==
  LET rect == element
      isLargeVideo == rect.width > 400 /\ rect.height > 200
      hasControls == FlagOrSet(metadata, "hasControls")
      isSmallVideo == rect.width < 300 \/ rect.height < 150
      isBackground == rect.width < 100 \/ rect.height < 100
      isHidden == ~FlagOrSet(metadata, "isVisible") \/ rect.width = 0 \/ rect.height = 0
  IN IF isHidden \/ isBackground THEN "hidden"
     ELSE IF hasAdKeywords(element) \/ (FlagOrSet(metadata, "isAutoplay") /\ ~hasControls /\ isSmallVideo)
          THEN "advertisement"
     ELSE IF isSmallVideo /\ ~hasControls THEN "thumbnail"
     ELSE IF FlagOrSet(metadata, "isPlaying") /\ isLargeVideo /\ hasControls THEN "main"
     ELSE IF isCenterOfViewport(rect) /\ isLargeVideo THEN "main"
     ELSE IF isLargeVideo /\ hasControls THEN "content"
     ELSE "secondary"

\* categorizeVideo(element, metadata) for a DOM element (element is not null)
categorizeVideo(element, metadata) ==
  LET rect == element
      isLargeVideo == rect.width > 400 /\ rect.height > 200
      hasControls == Flag(metadata, "hasControls")
      isCurrentlyPlaying == Flag(metadata, "isPlaying")
      isSmallVideo == rect.width < 300 \/ rect.height < 150
      isAutoplayWithoutControls == Flag(metadata, "isAutoplay") /\ ~Flag(metadata, "hasControls")
      isBackground == rect.width < 100 \/ rect.height < 100
      isHidden == ~Flag(metadata, "isVisible") \/ rect.width = 0 \/ rect.height = 0
  IN IF isHidden \/ isBackground THEN "hidden"
     ELSE IF hasAdKeywords(element) \/ (isAutoplayWithoutControls /\ isSmallVideo)
          THEN "advertisement"
     ELSE IF isSmallVideo /\ ~hasControls THEN "thumbnail"
     ELSE IF isCurrentlyPlaying /\ isLargeVideo /\ hasControls THEN "main"
     ELSE IF isCenterOfViewport(rect) /\ isLargeVideo THEN "main"
     ELSE IF isLargeVideo /\ hasControls THEN "content"
     ELSE "secondary"

\* isValidVideo(metadata, category) on a page that is not a social-media site
isValidVideo(metadata, category) ==
  /\ category # "hidden"
  /\ ~(metadata.width < 100 \/ metadata.height < 100)
  /\ ~(metadata.duration > 0 /\ metadata.duration < 3)
  /\ metadata.src # <<>>

\* ------------------------------------------------------------------------
\* generateVideoId and scanForVideos (content.js VideoDetectionManager)
\* ------------------------------------------------------------------------
Base64Alphabet == UpperSeq \o LowerSeq \o DigitSeq \o <<"+", "/">>

\* the code unit of a character (all strings here are ASCII)
CharCode(c) ==
  IF \E i \in DOMAIN UpperSeq : UpperSeq[i] = c
  THEN 64 + (CHOOSE i \in DOMAIN UpperSeq : UpperSeq[i] = c)
  ELSE IF \E i \in DOMAIN LowerSeq : LowerSeq[i] = c
  THEN 96 + (CHOOSE i \in DOMAIN LowerSeq : LowerSeq[i] = c)
  ELSE IF \E i \in DOMAIN DigitSeq : DigitSeq[i] = c
  THEN 47 + (CHOOSE i \in DOMAIN DigitSeq : DigitSeq[i] = c)
  ELSE CASE c = " " -> 32 [] c = "&" -> 38 [] c = "-" -> 45 [] c = "." -> 46
         [] c = "/" -> 47 [] c = ":" -> 58 [] c = "=" -> 61 [] c = "?" -> 63
         [] c = "_" -> 95

RECURSIVE btoa(_)
\* window.btoa: three bytes become four characters of the alphabet; one or
\* two last bytes are padded with "="
btoa(s) ==
  IF s = <<>> THEN <<>>
  ELSE
  LET b1 == CharCode(s[1])
      b2 == IF Len(s) >= 2 THEN CharCode(s[2]) ELSE 0
      b3 == IF Len(s) >= 3 THEN CharCode(s[3]) ELSE 0
      n  == b1 * 65536 + b2 * 256 + b3
      c1 == Base64Alphabet[(n \div 262144) + 1]
      c2 == Base64Alphabet[((n \div 4096) % 64) + 1]
      c3 == IF Len(s) >= 2 THEN Base64Alphabet[((n \div 64) % 64) + 1] ELSE "="
      c4 == IF Len(s) >= 3 THEN Base64Alphabet[(n % 64) + 1] ELSE "="
  IN <<c1, c2, c3, c4>> \o (IF Len(s) > 3 THEN btoa(SubSeq(s, 4, Len(s))) ELSE <<>>)

Str_videoId == <<"v","i","d","e","o","_">>

\* `video_${btoa(src + rect.width + rect.height + index)
\*            .replace(/[^a-zA-Z0-9]/g, '').substring(0, 12)}`
\* index is the 0-based position of the element in the scan
generateVideoId(element, index) ==
  Str_videoId \o
  Substring0(SelectSeq(btoa(element.src \o NumberToString(element.width)
                              \o NumberToString(element.height) \o NumberToString(index)),
                       LAMBDA c : c \in AlnumChars),
             12)

\* detectedVideos.has(id)
Has(videos, id) == \E i \in DOMAIN videos : videos[i].id = id

\* detectedVideos.set(id, value): a known key keeps its place in the Map's
\* iteration order, a new key goes last
MapSet(videos, value) ==
  IF Has(videos, value.id)
  THEN [ i \in DOMAIN videos |-> IF videos[i].id = value.id THEN value ELSE videos[i] ]
  ELSE Append(videos, value)

RECURSIVE ScanElements(_, _, _)
\* videoElements.forEach((element, index) => ...) of scanForVideos, from the
\* element at 1-based position k on
ScanElements(videos, videoElements, k) ==
  IF k > Len(videoElements) THEN videos
  ELSE
  LET element  == videoElements[k]
      videoId  == generateVideoId(element, k - 1)
      metadata == extractVideoMetadata(element)
      category == categorizeVideo(element, metadata)
  IN IF ~Has(videos, videoId) /\ isValidVideo(metadata, category)
     THEN ScanElements(MapSet(videos, [id |-> videoId, src |-> metadata.src,
                                       domain |-> <<>>, category |-> category]),
                       videoElements, k + 1)
     ELSE ScanElements(videos, videoElements, k + 1)


\* ------------------------------------------------------------------------
\* Background: the format of a requested URL
\* ------------------------------------------------------------------------
\* new Map()
NoEntries == [ key \in {} |-> <<>> ]

Ext_mpd  == <<".","m","p","d">>
Ext_mp4  == <<".","m","p","4">>
Ext_webm == <<".","w","e","b","m">>
Ext_ts   == <<".","t","s">>
Ext_m4s  == <<".","m","4","s">>
Ext_mov  == <<".","m","o","v">>
Ext_avi  == <<".","a","v","i">>
Ext_mkv  == <<".","m","k","v">>

\* isVideoStreamUrl(url) of the background script
isVideoStreamUrl(url) ==
  LET lowUrl == ToLowerCase(url)
  IN \E ext \in {Str_m3u8, Ext_mpd, Ext_mp4, Ext_webm, Ext_ts, Ext_m4s,
                 Ext_mov, Ext_avi, Ext_mkv} : Includes(lowUrl, ext)

\* detectStreamFormat(url) of the background script
detectStreamFormat(url) ==
  LET lowUrl == ToLowerCase(url)
  IN IF Includes(lowUrl, Str_m3u8) THEN "HLS"
     ELSE IF Includes(lowUrl, Ext_mpd) THEN "DASH"
     ELSE IF \E ext \in {Ext_mp4, Ext_webm, Ext_mov} : Includes(lowUrl, ext)
     THEN "PROGRESSIVE"
     ELSE IF \E ext \in {Ext_ts, Ext_m4s} : Includes(lowUrl, ext) THEN "SEGMENTS"
     ELSE "UNKNOWN"

\* STREAM_FORMATS, in the order of Object.entries: extensions and indicators
STREAM_FORMATS ==
  << [name |-> "HLS", extensions |-> {Str_m3u8},
      indicators |-> {SubSeq(Str_m3u8, 2, 5), Str_playlist \o Str_m3u8,
                      Str_index \o Str_m3u8}],
     [name |-> "DASH", extensions |-> {Ext_mpd},
      indicators |-> {SubSeq(Ext_mpd, 2, 4),
                      <<"m","a","n","i","f","e","s","t">> \o Ext_mpd}],
     [name |-> "PROGRESSIVE",
      extensions |-> {Ext_mp4, Ext_webm, Ext_avi, Ext_mov, Ext_mkv},
      indicators |-> {}],
     [name |-> "SEGMENTS", extensions |-> {Ext_ts, Ext_m4s, Ext_mp4},
      indicators |-> {<<"s","e","g","m","e","n","t">>, <<"c","h","u","n","k">>}] >>

\* URLUtils.detectStreamFormat(url): the first format one of whose extensions
\* or indicators the lowercased URL includes, "" for null
URLUtils_detectStreamFormat(url) ==
  LET lowercaseUrl == ToLowerCase(url)
      Matches(k)   == \E lit \in STREAM_FORMATS[k].extensions \cup STREAM_FORMATS[k].indicators :
                        Includes(lowercaseUrl, lit)
      found        == { k \in 1..Len(STREAM_FORMATS) : Matches(k) }
  IN IF url = <<>> \/ found = {} THEN ""
     ELSE STREAM_FORMATS[CHOOSE k \in found : \A j \in found : k <= j].name

\* URLUtils.shouldExcludeURL(url)
shouldExcludeURL(url) ==
  \/ url = <<>>
  \/ \E pattern \in { <<"d","a","t","a",":">>, <<"b","l","o","b",":">>,
                      <<"c","h","r","o","m","e","-","e","x","t","e","n","s","i","o","n",":">>,
                      <<"m","o","z","-","e","x","t","e","n","s","i","o","n",":">> } :
       MatchAt(url, 1, pattern)

\* the requests of the tabs: two streams and a page
Url_page      == Url(Host_cdn, <<Seg_xyz>>, <<>>)
RequestedUrls == {Url_variant720, Url_timestamp, Url_page}

\* the streams of a player: a DASH manifest, a progressive file, an HLS
\* manifest and a segment
Seg_manifest_mpd == <<"m","a","n","i","f","e","s","t">> \o Ext_mpd
Seg_movie_mp4    == <<"m","o","v","i","e">> \o Ext_mp4
Url_dash         == Url(Host_cdn, <<Seg_show, Seg_manifest_mpd>>, <<>>)
Url_progressive  == Url(Host_cdn, <<Seg_show, Seg_movie_mp4>>, <<>>)
QualityUrls      == {Url_timestamp, Url_progressive, Url_dash, Url_variant720}
Tabs          == 1..MaxTabs
TabScenarios  == {"background", "monitor"}
RequestIds    == 1..MaxRequests

\* the functions of a URL, evaluated once for the URLs requested
StreamFormatTable ==
  [ url \in RequestedUrls \cup QualityUrls |->
      [isVideoStreamUrl   |-> isVideoStreamUrl(url),
       detectStreamFormat |-> detectStreamFormat(url),
       shouldExcludeURL   |-> shouldExcludeURL(url),
       streamFormat       |-> URLUtils_detectStreamFormat(url)] ]

\* ------------------------------------------------------------------------
\* State
\* ------------------------------------------------------------------------
VARIABLES
  scenario,        \* which part of the program runs, and on which inputs
  now,             \* Date.now(), in ms
  detectedVideos,  \* enhancedVideoManager.detectedVideos, in iteration order
  groupedVideos,   \* the list the last aggregation pass handed to the UI
  lastPass,        \* who received it: "banner" (createGroupedStreamBanner),
                   \* "dialog" (showGroupedStreamDetails), "none" before any pass
  passThrew,       \* the last aggregation pass ended with an exception
  request,         \* the body of the last POST the backend received
  response,        \* what analyseLink answered to it
  keyCalls,        \* <<the call before, the latest call>> of getVideoGroupingKey
  nameCalls,       \* the same of extractVideoNameFromGroupingKey
  categorized,     \* the last element given to categorizeVideo, and the result
  \* The URL functions read nothing but their arguments; their results for the
  \* URLs of the scenario are evaluated once and looked up afterwards:
  groupingKeyOf,         \* [src, t]: getVideoGroupingKey({src}) of content.js at Date.now() = t
  backendGroupingKeyOf,  \* [url, t]: getVideoGroupingKey(url) of process.utils
  groupNameOf,           \* [<<groupingKey, urls>>]: extractVideoNameFromGroupingKey of
                         \* content.js for streams with the src values urls (no stream,
                         \* or the first one: it reads no other part of streams)
  backendGroupNameOf,    \* [<<groupingKey, urls>>]: the same of process.utils
  domainOf,              \* [url]: extractDomain(url) of the background script
  streamFormatOf,        \* [url]: what the background script and URLUtils make of
                         \* the URL of a request
  capturedStreams,  \* background: Map tabId -> array of stream data; its
                    \* DOMAIN is the set of keys
  activeStreams,    \* NetworkMonitor.activeStreams, likewise
  capturedRequests, \* NetworkMonitor.capturedRequests: the request data by
                    \* requestId
  tabEvent,         \* the latest browser event the background handled, and how
                    \* many streams its tab held in either Map just before
  analysisQueue,    \* StreamAnalyzer.analysisQueue
  timeout,          \* the timer of debouncedProcessQueue: the reading of the
                    \* clock at which it is due, NoTimeout when none is set
  streamsFound,     \* the calls of handleStreamFound so far: stream and time
  queueRuns,        \* the times at which processAnalysisQueue ran
  tabAnalyses,      \* the calls of analyzeTabStreams so far
  scanned,          \* the elements of the last scanForVideos run and the ids
                    \* generateVideoId gave them
  bestStream,       \* the last call of getBestQualityStream and what it returned
  sessionId,        \* POCCookieManager.sessionId
  userConsent,      \* POCCookieManager.userConsent
  storage,          \* chrome.storage.local: what it holds under userConsent
                    \* and sessionId, Null when it holds neither
  startedAt,        \* the reading of the clock when the background script
                    \* started: its intervals count from there
  revokePosts,      \* the bodies of the POSTs to /api/extension/revoke so far
  cookieCall,       \* the last call of extractCookies, the consent it found
                    \* and whether it went on to chrome.cookies.getAll
  analysisCache,    \* StreamAnalyzer.analysisCache: videoId -> timestamp of the entry
  pendingAnalysis,  \* StreamAnalyzer.pendingAnalysis: videoId -> promise
  inFlight,         \* the calls of performVideoAnalysis that have not resolved
                    \* yet: promise and videoId
  analysisCall,     \* the last call of analyzeVideo: how many analyses of its
                    \* videoId were in flight, what it did, and how many calls
                    \* of performVideoAnalysis there were so far
  selections,       \* the calls of selectVideo that showed a consent dialog:
                    \* the video, the button clicked and how far it got
  pageRequests,     \* the requests the content script made for a selection:
                    \* the cookie request to the background, the POST
  tabVideoCount,    \* VideoManager.tabVideoCount: tabId -> count
  selectedVideos,   \* VideoManager.selectedVideos: tabId -> id of the video
  streamAnalysisResults,  \* EnhancedVideoManager.streamAnalysisResults:
                          \* videoId -> tabId and downloadable
  lastMessage,      \* the last message the onMessage listener of the
                    \* background handled, and what it answered
  operation         \* the last operation of the cookie manager that completed,
                    \* the session id it found and how many ran so far

contentVars  == <<scenario, now, detectedVideos, groupedVideos, lastPass, passThrew>>
backendVars  == <<request, response>>
keyVars      == <<keyCalls, nameCalls>>
categoryVars == <<categorized>>
urlVars      == <<groupingKeyOf, backendGroupingKeyOf, groupNameOf, backendGroupNameOf, domainOf,
                 streamFormatOf>>
tabVars == <<capturedStreams, activeStreams, capturedRequests, tabEvent>>
analyzerVars == <<analysisQueue, timeout, streamsFound, queueRuns, tabAnalyses>>
scanVars == <<scanned>>
bestVars == <<bestStream>>
cookieVars == <<sessionId, userConsent, storage, startedAt, revokePosts, cookieCall, operation>>
pendingVars == <<analysisCache, pendingAnalysis, inFlight, analysisCall>>
dialogVars == <<selections, pageRequests>>
messageVars == <<tabVideoCount, selectedVideos, streamAnalysisResults, lastMessage>>
serviceVars == <<cookieVars, pendingVars, dialogVars, messageVars>>
componentVars == <<tabVars, analyzerVars, scanVars, bestVars, serviceVars>>
\* what the events of one component leave alone among these
notTabVars      == <<analyzerVars, scanVars, bestVars, serviceVars>>
notAnalyzerVars == <<tabVars, scanVars, bestVars, serviceVars>>
notScanVars     == <<tabVars, analyzerVars, bestVars, serviceVars>>
notBestVars     == <<tabVars, analyzerVars, scanVars, serviceVars>>
pageVars        == <<tabVars, analyzerVars, scanVars, bestVars>>
vars == <<contentVars, backendVars, keyVars, categoryVars, urlVars, componentVars>>

NoRequest  == [hasVideoUrl |-> FALSE, hasM3u8Urls |-> FALSE, m3u8Urls |-> <<>>]
NoResponse == [status |-> 0, message |-> "", groupedVideos |-> <<>>,
               originalM3U8Count |-> 0, groupedVideoCount |-> 0]
NoCall     == [called |-> FALSE, url |-> <<>>, at |-> 0,
               key |-> Returned(<<>>), backendKey |-> Returned(<<>>)]
NoNameCall == [called |-> FALSE, url |-> <<>>, urls |-> <<>>, groupingKey |-> <<>>,
               backendGroupingKey |-> <<>>, name |-> <<>>, backendName |-> <<>>]
NoElement  == [done |-> FALSE, element |-> PageVideo, flags |-> TRUE, category |-> ""]



\* `let timeout;` before the first setTimeout, and after clearTimeout
NoTimeout  == -1
\* the null a function returns
Null       == [null |-> TRUE]
NoBestCall == [called |-> FALSE, tabId |-> 0, streams |-> <<>>, result |-> Null]
\* userConsent as the constructor and clearConsent set it
NoConsent  == [granted |-> FALSE, domains |-> {}, timestamp |-> Null, expiresAt |-> Null]
NoCookieCall == [called |-> FALSE, at |-> 0, domain |-> "", consent |-> NoConsent,
                 getAll |-> FALSE]
NoOperation == [name |-> "constructor", sessionId |-> Null, count |-> 0, restarts |-> 0]
NoAnalysisCall == [called |-> FALSE, videoId |-> "", running |-> 0, did |-> "", started |-> 0]
NoMessage  == [action |-> "", tabId |-> 0, videoId |-> "", response |-> Null]
NoScan     == [elements |-> <<>>, ids |-> <<>>]
NoTabEvent == [kind |-> "none", tabId |-> 0, status |-> "", hasUrl |-> FALSE,
               held |-> 0, monitorHeld |-> 0]

\* the content script, the backend, the callers and the background before
\* any event
InitState(sc) ==
  /\ scenario = sc
  /\ now = 0
  /\ detectedVideos = <<>>
  /\ groupedVideos = <<>>
  /\ lastPass = "none"
  /\ passThrew = FALSE
  /\ request = NoRequest
  /\ response = NoResponse
  /\ keyCalls = <<NoCall, NoCall>>
  /\ nameCalls = <<NoNameCall, NoNameCall>>
  /\ categorized = NoElement
  /\ capturedStreams = NoEntries
  /\ activeStreams = NoEntries
  /\ capturedRequests = <<>>
  /\ tabEvent = NoTabEvent
  /\ analysisQueue = <<>>
  /\ timeout = NoTimeout
  /\ streamsFound = <<>>
  /\ queueRuns = <<>>
  /\ tabAnalyses = <<>>
  /\ scanned = NoScan
  /\ bestStream = NoBestCall
  /\ sessionId = Null
  /\ userConsent = NoConsent
  /\ storage = Null
  /\ startedAt = 0
  /\ revokePosts = <<>>
  /\ cookieCall = NoCookieCall
  /\ operation = NoOperation
  /\ tabVideoCount = NoEntries
  /\ selectedVideos = NoEntries
  /\ streamAnalysisResults = NoEntries
  /\ lastMessage = NoMessage
  /\ selections = <<>>
  /\ pageRequests = <<>>
  /\ analysisCache = NoEntries
  /\ pendingAnalysis = NoEntries
  /\ inFlight = {}
  /\ analysisCall = NoAnalysisCall
  /\ streamFormatOf = IF sc \in TabScenarios THEN StreamFormatTable ELSE NoEntries

\* content.js and the background script evaluated on urls
ExtensionTables(urls) ==
  /\ groupingKeyOf =
       [ src \in urls, t \in ClockReadings |-> getVideoGroupingKey([src |-> src], t) ]
  /\ groupNameOf =
       [ p \in { <<groupingKeyOf[src, t].value, <<src>>>> : src \in urls, t \in ClockReadings } |->
           extractVideoNameFromGroupingKey(p[1], <<[src |-> p[2][1]]>>) ]
  /\ domainOf = [ url \in urls |-> extractDomain(url) ]

\* process.utils evaluated on urls
BackendTables(urls) ==
  /\ backendGroupingKeyOf =
       [ url \in urls, t \in ClockReadings |-> getVideoGroupingKeyBackend(url, t) ]
  /\ backendGroupNameOf =
       [ p \in { <<backendGroupingKeyOf[url, t].value, <<url>>>> : url \in urls, t \in ClockReadings } |->
           extractVideoNameFromGroupingKeyBackend(p[1], <<[url |-> p[2][1]]>>) ]

\* nothing of the extension, or of the backend, is evaluated
NoExtensionTables == groupingKeyOf = <<>> /\ groupNameOf = <<>> /\ domainOf = <<>>
NoBackendTables   == backendGroupingKeyOf = <<>> /\ backendGroupNameOf = <<>>

Init == InitState("mixed") /\ ExtensionTables(MixedUrls) /\ NoBackendTables

InitCounts == InitState("counts") /\ ExtensionTables(CountUrls) /\ NoBackendTables

InitBackend == InitState("backend") /\ ExtensionTables(BackendUrls) /\ BackendTables(BackendUrls)

\* the two getVideoGroupingKey alone, evaluated on urls
GroupingKeyTables(urls) ==
  /\ groupingKeyOf =
       [ src \in urls, t \in ClockReadings |-> getVideoGroupingKey([src |-> src], t) ]
  /\ backendGroupingKeyOf =
       [ url \in urls, t \in ClockReadings |-> getVideoGroupingKeyBackend(url, t) ]
  /\ groupNameOf = <<>>
  /\ backendGroupNameOf = <<>>
  /\ domainOf = <<>>

\* requests and stream messages with and without streams
InitEmptyInput == InitState("empty") /\ ExtensionTables(BackendUrls) /\ BackendTables(BackendUrls)

\* either build of the background: the script with its own capturedStreams
\* and a stand-in networkMonitor, or the one that loads NetworkMonitor
InitTabs == \E sc \in TabScenarios : InitState(sc) /\ NoExtensionTables /\ NoBackendTables

InitAnalyzer == InitState("analyzer") /\ NoExtensionTables /\ NoBackendTables

InitScan == InitState("scan") /\ NoExtensionTables /\ NoBackendTables

InitPending == InitState("pending") /\ NoExtensionTables /\ NoBackendTables

InitDialog == InitState("dialog") /\ NoExtensionTables /\ NoBackendTables

InitMessages == InitState("messages") /\ NoExtensionTables /\ NoBackendTables

InitCookies == InitState("cookies") /\ NoExtensionTables /\ NoBackendTables

InitKey == InitState("key") /\ GroupingKeyTables(KeyUrls)

InitStrategy == InitState("strategy") /\ GroupingKeyTables(StrategyUrls)

InitCategorize == InitState("categorize") /\ NoExtensionTables /\ NoBackendTables

\* the two getVideoGroupingKey and the two extractVideoNameFromGroupingKey,
\* evaluated on urls: the names of a group of one stream, and of its key alone
NameTables(urls) ==
  /\ groupingKeyOf =
       [ src \in urls, t \in ClockReadings |-> getVideoGroupingKey([src |-> src], t) ]
  /\ backendGroupingKeyOf =
       [ url \in urls, t \in ClockReadings |-> getVideoGroupingKeyBackend(url, t) ]
  /\ groupNameOf =
       [ p \in { <<groupingKeyOf[src, t].value, <<src>>>> : src \in urls, t \in ClockReadings }
               \cup { <<groupingKeyOf[src, t].value, <<>>>> : src \in urls, t \in ClockReadings } |->
           extractVideoNameFromGroupingKey(p[1], [k \in DOMAIN p[2] |-> [src |-> p[2][k]]]) ]
  /\ backendGroupNameOf =
       [ p \in { <<backendGroupingKeyOf[url, t].value, <<url>>>> : url \in urls, t \in ClockReadings }
               \cup { <<backendGroupingKeyOf[url, t].value, <<>>>> : url \in urls, t \in ClockReadings } |->
           extractVideoNameFromGroupingKeyBackend(p[1], [k \in DOMAIN p[2] |-> [url |-> p[2][k]]]) ]
  /\ domainOf = [ url \in urls |-> extractDomain(url) ]

InitName == InitState("name") /\ NameTables(NameUrls)

\* ------------------------------------------------------------------------
\* Group aggregation and ordering
\* (content.js updateGroupedStreamBanner / showAllCapturedStreams)
\* ------------------------------------------------------------------------
RECURSIVE GroupStreams(_, _, _, _)
\* capturedStreams.forEach(...) from stream k on. videoGroups is the Map's
\* values in insertion order; times[k] is what Date.now() returns while
\* stream k is processed. An exception in the callback ends the pass.
GroupStreams(streams, times, k, videoGroups) ==
  IF k > Len(streams) THEN Returned(videoGroups)
  ELSE
  LET r == groupingKeyOf[streams[k].src, times[k]]
      groupingKey == r.value
      pos == FirstPos(LAMBDA g : videoGroups[g].groupingKey = groupingKey, Len(videoGroups))
      withGroup == IF pos = 0
                   THEN Append(videoGroups, [groupingKey |-> groupingKey,
                                             name       |-> <<>>,
                                             domain     |-> streams[k].domain,
                                             streams    |-> <<>>])
                   ELSE videoGroups
      at == IF pos = 0 THEN Len(withGroup) ELSE pos
  IN IF r.threw THEN Thrown
     ELSE GroupStreams(streams, times, k + 1,
                       [withGroup EXCEPT ![at].streams = Append(@, streams[k])])

\* videoGroups.forEach(group => group.name = extractVideoNameFromGroupingKey(...))
NameGroups(videoGroups) ==
  [ g \in DOMAIN videoGroups |->
      [videoGroups[g] EXCEPT !.name =
         groupNameOf[<<videoGroups[g].groupingKey, <<videoGroups[g].streams[1].src>>>>]] ]

RECURSIVE InsertBeforeTies(_, _)
\* a faulty variant of InsertByCount: g goes before the groups of its own size
InsertBeforeTies(sorted, g) ==
  IF sorted = <<>> THEN <<g>>
  ELSE IF Len(Head(sorted).streams) > Len(g.streams)
       THEN <<Head(sorted)>> \o InsertBeforeTies(Tail(sorted), g)
       ELSE <<g>> \o sorted

RECURSIVE InsertByCount(_, _)
\* one step of a stable sort with comparator (a, b) => b.streams.length -
\* a.streams.length: g goes behind every group that has at least as many streams
InsertByCount(sorted, g) ==
  IF sorted = <<>> THEN <<g>>
  ELSE IF Len(Head(sorted).streams) >= Len(g.streams)
       THEN <<Head(sorted)>> \o InsertByCount(Tail(sorted), g)
       ELSE <<g>> \o sorted

RECURSIVE SortByStreamCount(_)
\* Array.prototype.sort((a, b) => b.streams.length - a.streams.length);
\* the sort of the engine is stable
SortByStreamCount(groups) ==
  IF groups = <<>> THEN <<>>
  ELSE InsertByCount(SortByStreamCount(SubSeq(groups, 1, Len(groups) - 1)),
                     groups[Len(groups)])

\* a faulty variant of AggregateStreams: the first stream is left out
AggregateAllButFirst(captured, times) ==
  LET grouped == GroupStreams(Tail(captured), Tail(times), 1, <<>>)
  IN IF grouped.threw THEN Thrown
     ELSE Returned(SortByStreamCount(NameGroups(grouped.value)))

\* the grouping, naming and ordering steps of one pass over captured
AggregateStreams(captured, times) ==
  LET grouped == GroupStreams(captured, times, 1, <<>>)
  IN IF grouped.threw THEN Thrown
     ELSE Returned(SortByStreamCount(NameGroups(grouped.value)))

\* Array.from(detectedVideos.values()).filter(video => video.category === 'captured')
CapturedStreamsOf(videos) == SelectSeq(videos, LAMBDA v : v.category = "captured")

\* ------------------------------------------------------------------------
\* Backend: controllers/analyseLink and the error middleware
\* ------------------------------------------------------------------------
RECURSIVE GroupStreamsBackend(_, _, _, _)
\* m3u8Urls.forEach(...) of analyseLink, with process.utils' grouping key
GroupStreamsBackend(streams, times, k, videoGroups) ==
  IF k > Len(streams) THEN Returned(videoGroups)
  ELSE
  LET r == backendGroupingKeyOf[streams[k].url, times[k]]
      groupingKey == r.value
      pos == FirstPos(LAMBDA g : videoGroups[g].groupingKey = groupingKey, Len(videoGroups))
      withGroup == IF pos = 0
                   THEN Append(videoGroups, [groupingKey |-> groupingKey,
                                             name       |-> <<>>,
                                             domain     |-> streams[k].domain,
                                             streams    |-> <<>>])
                   ELSE videoGroups
      at == IF pos = 0 THEN Len(withGroup) ELSE pos
  IN IF r.threw THEN Thrown
     ELSE GroupStreamsBackend(streams, times, k + 1,
                              [withGroup EXCEPT ![at].streams = Append(@, streams[k])])

\* the names the controller module binds: its three require() lines and its
\* own declarations. getVideoGroupingKey is exported by process.utils but
\* not imported here.
ControllerScope ==
  {"logger", "processLink", "extractVideoNameFromGroupingKey",
   "analyseLink", "processStatus", "downloadLink"}

\* evaluating an identifier that is not bound throws a ReferenceError
Resolves(identifier) == identifier \in ControllerScope

\* the body of the `if (m3u8Urls && m3u8Urls.length > 0)` block: groupedVideos
BackendGroupedVideos(m3u8Urls, times) ==
  IF ~Resolves("getVideoGroupingKey") THEN Thrown
  ELSE LET grouped == GroupStreamsBackend(m3u8Urls, times, 1, <<>>)
       IN IF grouped.threw THEN Thrown
          ELSE Returned([ g \in DOMAIN grouped.value |->
                 [grouped.value[g] EXCEPT !.name =
                    backendGroupNameOf[<<grouped.value[g].groupingKey,
                                         <<grouped.value[g].streams[1].url>>>>]] ])

\* errorMiddleware: res.status(err.status || 500).json({error, message})
ErrorResponse(message) ==
  [status |-> 500, message |-> message, groupedVideos |-> <<>>,
   originalM3U8Count |-> 0, groupedVideoCount |-> 0]

\* analyseLink(req, res, next): the response the client receives.
\* body.m3u8Urls is <<>> for an empty array; body.hasM3u8Urls tells whether
\* the field is present at all.
analyseLink(body, times) ==
  LET m3u8Urls == IF body.hasM3u8Urls THEN body.m3u8Urls ELSE <<>>
      grouped  == IF Len(m3u8Urls) > 0
                  THEN BackendGroupedVideos(m3u8Urls, times)
                  ELSE Returned(<<>>)
  IN IF ~body.hasVideoUrl THEN ErrorResponse("No video url provided")
     ELSE IF grouped.threw THEN ErrorResponse("getVideoGroupingKey is not defined")
     ELSE [status |-> 200, message |-> "Video processing started (demo mode)",
           groupedVideos     |-> grouped.value,
           originalM3U8Count |-> Len(m3u8Urls),
           groupedVideoCount |-> Len(grouped.value)]

\* ------------------------------------------------------------------------
\* Content script events
\* ------------------------------------------------------------------------
\* the clock readings of a pass over n streams that starts at `now`: the
\* clock ticks once just before stream tickAt is processed (0: not at all)
PassTimes(n, tickAt) ==
  [ k \in 1..n |-> IF tickAt # 0 /\ k >= tickAt THEN now + 1 ELSE now ]

\* an aggregation pass that hands its list to receiver even when no stream
\* is captured
AggregationPassOfAnyList(videos, tickAt, receiver) ==
  LET captured == CapturedStreamsOf(videos)
      result   == AggregateStreams(captured, PassTimes(Len(captured), tickAt))
  IN /\ tickAt <= Len(captured)
     /\ tickAt # 0 => now < MaxClock
     /\ now' = IF tickAt # 0 THEN now + 1 ELSE now
     /\ IF result.threw
        THEN passThrew' = TRUE /\ UNCHANGED <<groupedVideos, lastPass>>
        ELSE /\ passThrew' = FALSE
             /\ groupedVideos' = result.value
             /\ lastPass' = receiver

\* one aggregation pass over the captured streams of videos, its list going
\* to receiver; an exception leaves the UI as it was
AggregationPass(videos, tickAt, receiver) ==
  LET captured == CapturedStreamsOf(videos)
      result   == AggregateStreams(captured, PassTimes(Len(captured), tickAt))
  IN /\ tickAt <= Len(captured)
     /\ tickAt # 0 => now < MaxClock
     /\ now' = IF tickAt # 0 THEN now + 1 ELSE now
     /\ IF captured = <<>>
        THEN UNCHANGED <<groupedVideos, lastPass, passThrew>>
        ELSE IF result.threw
        THEN passThrew' = TRUE /\ UNCHANGED <<groupedVideos, lastPass>>
        ELSE /\ passThrew' = FALSE
             /\ groupedVideos' = result.value
             /\ lastPass' = receiver

\* case 'streamCaptured': handleCapturedStream(request.stream), up to and
\* including updateGroupedStreamBanner(). The stream is new: the background
\* gives every stream an id of its own. The stream is stored as the message
\* carries it, its category included.
HandleStreamMessage(src, category, tickAt) ==
  LET streamData == [id |-> StreamId(Len(detectedVideos) + 1), src |-> src,
                     domain |-> domainOf[src], category |-> category]
      videos     == MapSet(detectedVideos, streamData)
  IN /\ src \in DOMAIN domainOf
     /\ Len(detectedVideos) < CapacityOf(scenario)
     /\ detectedVideos' = videos
     /\ AggregationPass(videos, tickAt, "banner")
     /\ UNCHANGED <<scenario, backendVars, keyVars, categoryVars, urlVars, componentVars>>

\* the message of a captured stream
HandleCapturedStream(src, tickAt) == HandleStreamMessage(src, "captured", tickAt)

\* showAllCapturedStreams(): the same pass, its list goes to the dialog
ShowAllCapturedStreams(tickAt) ==
  /\ AggregationPass(detectedVideos, tickAt, "dialog")
  /\ UNCHANGED <<scenario, detectedVideos, backendVars, keyVars, categoryVars, urlVars, componentVars>>

\* scanForVideos(): the 3 s timer, the mutation observer or 'rescanVideos'
ScanForVideos(videoElements) ==
  /\ scenario = "mixed"
  /\ Len(detectedVideos) + Len(videoElements) <= MaxVideos
  /\ detectedVideos' = ScanElements(detectedVideos, videoElements, 1)
  /\ UNCHANGED <<scenario, now, groupedVideos, lastPass, passThrew,
                 backendVars, keyVars, categoryVars, urlVars, componentVars>>

\* a millisecond passes
Tick ==
  /\ now < MaxClock
  /\ now' = now + 1
  /\ UNCHANGED <<scenario, detectedVideos, groupedVideos, lastPass, passThrew,
                 backendVars, keyVars, categoryVars, urlVars, componentVars>>

Next ==
  \/ \E src \in MixedUrls, tickAt \in 0..MaxVideos : HandleCapturedStream(src, tickAt)
  \/ \E tickAt \in 0..MaxVideos : ShowAllCapturedStreams(tickAt)
  \/ \E videoElements \in PageScans : ScanForVideos(videoElements)
  \/ Tick

Spec == Init /\ [][Next]_vars

\* the counts scenario: long lists of well-formed streams, no page elements
NextCounts ==
  \/ \E src \in CountUrls : HandleCapturedStream(src, 0)
  \/ ShowAllCapturedStreams(0)
  \/ Tick

SpecCounts == InitCounts /\ [][NextCounts]_vars

\* ------------------------------------------------------------------------
\* Backend requests
\* ------------------------------------------------------------------------
\* an entry of m3u8Urls as the extension sends it
M3u8Entry(url) == [url |-> url, domain |-> domainOf[url]]

\* the arrays of at most n entries
M3u8Lists(n) ==
  UNION { [1..len -> { M3u8Entry(url) : url \in BackendUrls }] : len \in 0..n }

\* the request bodies: videoUrl present or not, m3u8Urls absent or an array
RequestBodies ==
  { [hasVideoUrl |-> v, hasM3u8Urls |-> FALSE, m3u8Urls |-> <<>>] : v \in BOOLEAN }
  \cup { [hasVideoUrl |-> v, hasM3u8Urls |-> TRUE, m3u8Urls |-> list] :
           v \in BOOLEAN, list \in M3u8Lists(MaxM3u8) }

\* POST with body: analyseLink runs to its response; Date.now() does not move
\* while it groups
AnalyseLink(body) ==
  /\ request' = body
  /\ response' = analyseLink(body, [k \in 1..Len(body.m3u8Urls) |-> now])
  /\ UNCHANGED <<contentVars, keyVars, categoryVars, urlVars, componentVars>>

NextBackend == \E body \in RequestBodies : AnalyseLink(body)

SpecBackend == InitBackend /\ [][NextBackend]_vars

\* requests whose m3u8Urls is absent, empty or of one entry, and messages
\* of one stream under either category
StreamCategories == {"captured", "main"}

NextEmptyInput ==
  \/ \E body \in { b \in RequestBodies : Len(b.m3u8Urls) <= 1 } : AnalyseLink(body)
  \/ \E category \in StreamCategories :
       HandleStreamMessage(Url_variant720, category, 0)
  \/ ShowAllCapturedStreams(0)

SpecEmptyInput == InitEmptyInput /\ [][NextEmptyInput]_vars

\* ------------------------------------------------------------------------
\* Direct calls of getVideoGroupingKey
\* ------------------------------------------------------------------------
\* both implementations are called with url at the current clock reading;
\* the call before it stays on record
CallGetVideoGroupingKey(url) ==
  /\ keyCalls' = << keyCalls[2],
                    [called |-> TRUE, url |-> url, at |-> now,
                     key |-> groupingKeyOf[url, now],
                     backendKey |-> backendGroupingKeyOf[url, now]] >>
  /\ UNCHANGED <<contentVars, backendVars, categoryVars, urlVars, componentVars, nameCalls>>

NextKey ==
  \/ \E url \in KeyUrls : CallGetVideoGroupingKey(url)
  \/ Tick

SpecKey == InitKey /\ [][NextKey]_vars

\* the same calls for the URLs of the later strategies
NextStrategy ==
  \/ \E url \in StrategyUrls : CallGetVideoGroupingKey(url)
  \/ Tick

SpecStrategy == InitStrategy /\ [][NextStrategy]_vars

\* ------------------------------------------------------------------------
\* Categorization of single elements
\* ------------------------------------------------------------------------
Class_player   == <<"p","l","a","y","e","r">>
Class_adBanner == <<"a","d","-","b","a","n","n","e","r">>

\* computedStyle.display and computedStyle.visibility of an element
ComputedStyles == { <<"block", "visible">>, <<"none", "visible">>, <<"block", "hidden">> }

\* elements of every size class, at the centre and at the right edge of the
\* viewport, visible or not, playing or paused, with and without controls
PageElements ==
  { [PageVideo EXCEPT !.width = w, !.height = h, !.left = x,
                      !.display = st[1], !.visibility = st[2],
                      !.controls = c, !.autoplay = a, !.paused = p, !.className = cn] :
      w \in {0, 50, 250, 640}, h \in {0, 50, 360}, x \in {100, 900},
      st \in ComputedStyles, c \in BOOLEAN, a \in BOOLEAN, p \in BOOLEAN,
      cn \in {Class_player, Class_adBanner} }

\* the elements without controls, autoplay and playback
PlainElements ==
  { e \in PageElements : ~e.controls /\ ~e.autoplay /\ e.paused }

\* a metadata object on which hasControls, isPlaying and isAutoplay are not set
WithoutFlags(metadata) ==
  [ f \in DOMAIN metadata \ {"hasControls", "isPlaying", "isAutoplay"} |-> metadata[f] ]

\* categorizeVideo(element, extractVideoMetadata(element, videoId))
CategorizeVideo(element) ==
  /\ categorized' = [done |-> TRUE, element |-> element, flags |-> TRUE,
                     category |-> categorizeVideo(element, extractVideoMetadata(element))]
  /\ UNCHANGED <<contentVars, backendVars, keyVars, urlVars, componentVars>>

\* categorizeVideo(element, metadata) with a metadata object without the flags
CategorizeVideoWithoutFlags(element) ==
  /\ categorized' = [done |-> TRUE, element |-> element, flags |-> FALSE,
                     category |-> categorizeVideo(element,
                                    WithoutFlags(extractVideoMetadata(element)))]
  /\ UNCHANGED <<contentVars, backendVars, keyVars, urlVars, componentVars>>

NextCategorize ==
  \/ \E element \in PageElements : CategorizeVideo(element)
  \/ \E element \in PlainElements : CategorizeVideoWithoutFlags(element)

SpecCategorize == InitCategorize /\ [][NextCategorize]_vars

\* ------------------------------------------------------------------------
\* Direct calls of extractVideoNameFromGroupingKey
\* ------------------------------------------------------------------------
\* both implementations are called with the grouping key their own
\* getVideoGroupingKey gives url at the current clock reading, and with streams
\* of the URLs urls; the call before it stays on record
CallExtractVideoName(url, urls) ==
  LET groupingKey == groupingKeyOf[url, now].value
      backendGroupingKey == backendGroupingKeyOf[url, now].value
  IN /\ nameCalls' = << nameCalls[2],
                         [called |-> TRUE, url |-> url, urls |-> urls,
                          groupingKey |-> groupingKey,
                          backendGroupingKey |-> backendGroupingKey,
                          name |-> groupNameOf[<<groupingKey, urls>>],
                          backendName |-> backendGroupNameOf[<<backendGroupingKey, urls>>]] >>
     /\ UNCHANGED <<contentVars, backendVars, categoryVars, urlVars, componentVars, keyCalls>>

\* the name of a group of one stream, as the aggregation passes ask for it
NameGroupOf(url) == CallExtractVideoName(url, <<url>>)

\* the name of a grouping key without streams
NameKeyOf(url) == CallExtractVideoName(url, <<>>)

NextName ==
  \/ \E url \in NameUrls : NameGroupOf(url)
  \/ \E url \in NameUrls : NameKeyOf(url)
  \/ Tick

SpecName == InitName /\ [][NextName]_vars

\* ------------------------------------------------------------------------
\* Background: captured streams per tab
\* ------------------------------------------------------------------------
\* Map.prototype.get(key) || []
getTabStreams(streams, tabId) ==
  IF tabId \in DOMAIN streams THEN streams[tabId] ELSE <<>>

\* a Map that forgets every key on delete
DeleteAll(streams, tabId) == NoEntries

\* Map.prototype.delete(key)
Delete(streams, tabId) == [ key \in DOMAIN streams \ {tabId} |-> streams[key] ]

\* Map.prototype.set(key, value)
MapPut(streams, key, value) ==
  [ k \in DOMAIN streams \cup {key} |-> IF k = key THEN value ELSE streams[k] ]

\* the push of a stream no entry of the tab has the URL of: the shared tail
\* of the onCompleted listener and of addStreamToTab
AddStreamToTab(streams, tabId, streamData) ==
  LET tabStreams == getTabStreams(streams, tabId)
  IN IF \E k \in DOMAIN tabStreams : tabStreams[k].url = streamData.url
     THEN MapPut(streams, tabId, tabStreams)
     ELSE MapPut(streams, tabId, Append(tabStreams, streamData))

\* what the latest event was, and what its tab held when it arrived
TabEventOf(kind, tabId, status, hasUrl) ==
  [kind |-> kind, tabId |-> tabId, status |-> status, hasUrl |-> hasUrl,
   held        |-> Len(getTabStreams(capturedStreams, tabId)),
   monitorHeld |-> Len(getTabStreams(activeStreams, tabId))]

otherVars == <<contentVars, backendVars, keyVars, categoryVars, urlVars, notTabVars>>

\* chrome.webRequest.onCompleted listener of the background script
OnCompleted(url, tabId, statusCode) ==
  /\ scenario = "background"
  /\ tabEvent' = TabEventOf("completed", tabId, "", FALSE)
  /\ capturedStreams' =
       IF tabId < 0 \/ ~streamFormatOf[url].isVideoStreamUrl THEN capturedStreams
       ELSE AddStreamToTab(capturedStreams, tabId,
                           [url |-> url, format |-> streamFormatOf[url].detectStreamFormat,
                            timestamp |-> now, statusCode |-> statusCode])
  /\ UNCHANGED <<activeStreams, capturedRequests, otherVars>>

\* NetworkMonitor.handleRequest(details); the browser numbers the requests,
\* and the model those that are stored
HandleRequest(url, tabId) ==
  LET streamFormat == streamFormatOf[url].streamFormat
      requestId    == Len(capturedRequests) + 1
  IN /\ scenario = "monitor"
     /\ requestId <= MaxRequests
     /\ tabEvent' = TabEventOf("request", tabId, "", FALSE)
     /\ capturedRequests' =
          IF streamFormatOf[url].shouldExcludeURL \/ streamFormat = "" THEN capturedRequests
          ELSE Append(capturedRequests,
                      [url |-> url, format |-> streamFormat, tabId |-> tabId,
                       timestamp |-> now, requestId |-> requestId])
     /\ UNCHANGED <<capturedStreams, activeStreams, otherVars>>

\* NetworkMonitor.handleResponse(details), up to addStreamToTab; the manifest
\* cache is not part of the state
HandleResponse(requestId, statusCode) ==
  /\ scenario = "monitor"
  /\ tabEvent' = TabEventOf("response", 0, "", FALSE)
  /\ activeStreams' =
       IF statusCode < 200 \/ statusCode >= 300 \/ requestId \notin DOMAIN capturedRequests
       THEN activeStreams
       ELSE AddStreamToTab(activeStreams, capturedRequests[requestId].tabId,
                           capturedRequests[requestId])
  /\ UNCHANGED <<capturedStreams, capturedRequests, otherVars>>

\* chrome.tabs.onRemoved: the listener of the background script and the one
\* of NetworkMonitor.setupTabListeners
OnRemoved(tabId) ==
  /\ tabEvent' = TabEventOf("removed", tabId, "", FALSE)
  /\ capturedStreams' = Delete(capturedStreams, tabId)
  /\ activeStreams' = Delete(activeStreams, tabId)
  /\ UNCHANGED <<capturedRequests, otherVars>>

\* chrome.tabs.onUpdated: both listeners
OnUpdated(tabId, status, hasUrl) ==
  /\ tabEvent' = TabEventOf("updated", tabId, status, hasUrl)
  /\ IF status = "loading" /\ hasUrl
     THEN /\ capturedStreams' = Delete(capturedStreams, tabId)
          /\ activeStreams' = Delete(activeStreams, tabId)
     ELSE UNCHANGED <<capturedStreams, activeStreams>>
  /\ UNCHANGED <<capturedRequests, otherVars>>

NextTabs ==
  \/ \E url \in RequestedUrls, tabId \in Tabs \cup {-1}, statusCode \in {200} :
       OnCompleted(url, tabId, statusCode)
  \/ \E url \in RequestedUrls, tabId \in Tabs \cup {-1} : HandleRequest(url, tabId)
  \/ \E requestId \in RequestIds, statusCode \in {200, 404} :
       HandleResponse(requestId, statusCode)
  \/ \E tabId \in Tabs : OnRemoved(tabId)
  \/ \E tabId \in Tabs, status \in {"loading", "complete"}, hasUrl \in BOOLEAN :
       OnUpdated(tabId, status, hasUrl)

SpecTabs == InitTabs /\ [][NextTabs]_vars

\* ------------------------------------------------------------------------
\* Background: getBestQualityStream
\* ------------------------------------------------------------------------
\* streams.filter(s => s.format is one of formats)[0], Null when the filter
\* leaves nothing
FirstOfFormat(streams, formats) ==
  LET filtered == SelectSeq(streams, LAMBDA s : s.format \in formats)
  IN IF filtered = <<>> THEN Null ELSE filtered[1]

\* a choice that prefers no format
getFirstStream(streams) == IF streams = <<>> THEN Null ELSE streams[1]

\* networkMonitor.getBestQualityStream(tabId) of the background script, on
\* the list of the tab
getBestQualityStream(streams) ==
  IF Len(streams) = 0 THEN Null
  ELSE IF FirstOfFormat(streams, {"HLS"}) # Null THEN FirstOfFormat(streams, {"HLS"})
  ELSE IF FirstOfFormat(streams, {"DASH"}) # Null THEN FirstOfFormat(streams, {"DASH"})
  ELSE IF FirstOfFormat(streams, {"PROGRESSIVE"}) # Null
  THEN FirstOfFormat(streams, {"PROGRESSIVE"})
  ELSE streams[1]

\* NetworkMonitor.getBestQualityStream(tabId), on the list of the tab
getBestQualityStreamOfMonitor(streams) ==
  IF Len(streams) = 0 THEN Null
  ELSE IF FirstOfFormat(streams, {"HLS", "DASH"}) # Null
  THEN FirstOfFormat(streams, {"HLS", "DASH"})
  ELSE IF FirstOfFormat(streams, {"PROGRESSIVE"}) # Null
  THEN FirstOfFormat(streams, {"PROGRESSIVE"})
  ELSE streams[1]

\* a call of getBestQualityStream(tabId) of the build that runs; the list it
\* read stays on record
GetBestQualityStream(tabId) ==
  LET streams == IF scenario = "background" THEN getTabStreams(capturedStreams, tabId)
                 ELSE getTabStreams(activeStreams, tabId)
  IN /\ bestStream' =
          [called |-> TRUE, tabId |-> tabId, streams |-> streams,
           result |-> IF scenario = "background" THEN getBestQualityStream(streams)
                      ELSE getBestQualityStreamOfMonitor(streams)]
     /\ UNCHANGED <<contentVars, backendVars, keyVars, categoryVars, urlVars, notBestVars>>

\* the requests of the player in tab 1, and calls for either tab
NextBest ==
  \/ \E url \in QualityUrls : OnCompleted(url, 1, 200)
  \/ \E url \in QualityUrls : HandleRequest(url, 1)
  \/ \E requestId \in RequestIds : HandleResponse(requestId, 200)
  \/ \E tabId \in Tabs : GetBestQualityStream(tabId)

SpecBest == InitTabs /\ [][NextBest]_vars

\* ------------------------------------------------------------------------
\* StreamAnalyzer: the analysis queue and its debounce timer
\* ------------------------------------------------------------------------
\* the wait of debouncedProcessQueue, in ms
DebounceWait == 1000

\* the streams of streamsToProcess whose tabId is tabId, in queue order
StreamsOfTab(streamsToProcess, tabId) ==
  SelectSeq(streamsToProcess, LAMBDA stream : stream.tabId = tabId)

\* analyzeTabStreams(tabId, streams): the STREAM_ANALYZED event it emits
analyzeTabStreams(tabId, streams, at) ==
  [tabId        |-> tabId,
   streams      |-> streams,
   hasManifests |-> \E k \in DOMAIN streams : streams[k].format \in {"HLS", "DASH"},
   totalStreams |-> Len(streams),
   at           |-> at]

\* the calls of analyzeTabStreams of one processAnalysisQueue run: one per
\* key of streamsByTab, the keys in the order of Object.entries (integer
\* keys ascending) from tabId on
RECURSIVE AnalyzeFromTab(_, _, _)
AnalyzeFromTab(streamsToProcess, tabId, at) ==
  IF tabId > MaxTabs THEN <<>>
  ELSE (IF StreamsOfTab(streamsToProcess, tabId) = <<>> THEN <<>>
        ELSE << analyzeTabStreams(tabId, StreamsOfTab(streamsToProcess, tabId), at) >>)
       \o AnalyzeFromTab(streamsToProcess, tabId + 1, at)

\* a run that analyzes the streams of the first tab only
AnalyzeFirstTabOnly(streamsToProcess, at) ==
  IF StreamsOfTab(streamsToProcess, 1) = <<>> THEN <<>>
  ELSE << analyzeTabStreams(1, StreamsOfTab(streamsToProcess, 1), at) >>

\* processAnalysisQueue(): the calls of analyzeTabStreams it makes
processAnalysisQueue(streamsToProcess, at) == AnalyzeFromTab(streamsToProcess, 1, at)

otherVarsOfAnalyzer == <<scenario, detectedVideos, groupedVideos, lastPass, passThrew,
                        backendVars, keyVars, categoryVars, urlVars, notAnalyzerVars>>

\* handleStreamFound(streamData): the push, then debouncedProcessQueue():
\* clearTimeout and setTimeout(later, 1000). The stream is the n-th one
\* passed. A timer that is due at this reading of the clock has fired before
\* the call is handled.
HandleStreamFound(tabId, format) ==
  LET streamData == [n |-> Len(streamsFound) + 1, tabId |-> tabId, format |-> format]
  IN /\ Len(streamsFound) < MaxStreams
     /\ timeout # now
     /\ analysisQueue' = Append(analysisQueue, streamData)
     /\ timeout' = now + DebounceWait
     /\ streamsFound' = Append(streamsFound, [stream |-> streamData, at |-> now])
     /\ UNCHANGED <<now, queueRuns, tabAnalyses, otherVarsOfAnalyzer>>

\* the timer is due: later() clears it and runs processAnalysisQueue, which
\* runs to its end before the next event (it awaits nothing but
\* analyzeTabStreams, which awaits nothing)
TimerFires ==
  /\ timeout = now
  /\ timeout' = NoTimeout
  /\ queueRuns' = Append(queueRuns, now)
  /\ IF analysisQueue = <<>>
     THEN UNCHANGED <<analysisQueue, tabAnalyses>>
     ELSE /\ analysisQueue' = <<>>
          /\ tabAnalyses' = tabAnalyses \o processAnalysisQueue(analysisQueue, now)
  /\ UNCHANGED <<now, streamsFound, otherVarsOfAnalyzer>>

\* time passes until the timer is due
AdvanceToTimeout ==
  /\ timeout # NoTimeout
  /\ now < timeout
  /\ now' = timeout
  /\ UNCHANGED <<scenario, detectedVideos, groupedVideos, lastPass, passThrew,
                 backendVars, keyVars, categoryVars, urlVars, componentVars>>

\* ms pass: not more than are left until the timer is due or, with no timer
\* set, once after a run while more streams are to come
Advance(ms) ==
  /\ IF timeout = NoTimeout
     THEN /\ queueRuns # <<>>
          /\ now = queueRuns[Len(queueRuns)]
          /\ Len(streamsFound) < MaxStreams
     ELSE now + ms <= timeout
  /\ now' = now + ms
  /\ UNCHANGED <<scenario, detectedVideos, groupedVideos, lastPass, passThrew,
                 backendVars, keyVars, categoryVars, urlVars, componentVars>>

StreamFormats == {"HLS"}
AdvanceSteps  == {DebounceWait - 1}

NextAnalyzer ==
  \/ \E tabId \in Tabs, format \in StreamFormats : HandleStreamFound(tabId, format)
  \/ TimerFires
  \/ \E ms \in AdvanceSteps : Advance(ms)
  \/ AdvanceToTimeout

SpecAnalyzer == InitAnalyzer /\ [][NextAnalyzer]_vars

\* the event loop is not idle for ever: time passes and a due timer fires
SpecAnalyzerFair ==
  /\ SpecAnalyzer
  /\ WF_vars(TimerFires)
  /\ WF_vars(AdvanceToTimeout)

\* ------------------------------------------------------------------------
\* Content script: one run of scanForVideos and the ids it gives
\* ------------------------------------------------------------------------
\* the elements a page may hold: the page's video, a second video of the same
\* host, the page's video in another size, a video of another host, and a
\* 1x1 tracking iframe
LiveVideo    == [PageVideo EXCEPT !.src = Url(Host_cdn, <<Seg_live>>, <<>>)]
ResizedVideo == [PageVideo EXCEPT !.width = 320, !.height = 240]
OtherVideo   == [PageVideo EXCEPT !.src = Url(Host_ab, <<Seg_ab>>, <<>>)]
TrackerFrame == [PageVideo EXCEPT !.tagName = "IFRAME", !.width = 1, !.height = 1]
ScanElementSet == {PageVideo, LiveVideo, ResizedVideo, OtherVideo, TrackerFrame}

\* what document.querySelectorAll may return: at most MaxScan elements
ScanLists == UNION { [1..len -> ScanElementSet] : len \in 0..MaxScan }

\* the element passes isValidVideo
ValidElement(element) ==
  isValidVideo(extractVideoMetadata(element),
               categorizeVideo(element, extractVideoMetadata(element)))

\* scanForVideos() over videoElements, with the ids of the run on record
ScanPage(videoElements) ==
  /\ scenario = "scan"
  /\ Len(detectedVideos) + Len(videoElements) <= MaxVideos
  /\ detectedVideos' = ScanElements(detectedVideos, videoElements, 1)
  /\ scanned' = [elements |-> videoElements,
                 ids |-> [ k \in DOMAIN videoElements |->
                             generateVideoId(videoElements[k], k - 1) ]]
  /\ UNCHANGED <<scenario, now, groupedVideos, lastPass, passThrew,
                 backendVars, keyVars, categoryVars, urlVars, notScanVars>>

NextScan == \E videoElements \in ScanLists : ScanPage(videoElements)

SpecScan == InitScan /\ [][NextScan]_vars

\* ------------------------------------------------------------------------
\* POCCookieManager of the background script
\* ------------------------------------------------------------------------
\* 24 hours, the lifetime grantConsent gives a consent
ConsentLifetime == 24 * 60 * 60 * 1000
\* the period of the check for an expired consent
CleanupInterval == 60 * 60 * 1000
\* the readings of the clock are a quarter of an hour apart
ClockStep == 15 * 60 * 1000
CookieClock == { d * ConsentLifetime + q * ClockStep : d \in 0..MaxDays, q \in 0..MaxQuarters }

\* new Date(ms), and what toISOString and new Date(iso) keep of it
Date(ms) == [time |-> ms]
\* 'session_' + Date.now() + '_' + random
SessionId(ms) == [session |-> ms]

\* userConsent.expiresAt && new Date() > new Date(userConsent.expiresAt) at t
Expired(consent, t) == consent.expiresAt # Null /\ t > consent.expiresAt.time

\* clearConsent: what it leaves of the manager and of chrome.storage.local
clearConsent == [userConsent |-> NoConsent, sessionId |-> Null, storage |-> Null]

\* the manager the constructor makes, with what chrome.storage.local holds
constructor(stored) == [userConsent |-> NoConsent, sessionId |-> Null, storage |-> stored]

\* the manager after loadConsent at t: result is what chrome.storage.local.get
\* gave it
loadConsent(manager, t) ==
  LET result == manager.storage
      loaded == IF result # Null
                  THEN IF Expired(result.userConsent, t)
                         THEN clearConsent
                         ELSE [manager EXCEPT !.userConsent = result.userConsent]
                  ELSE manager
  IN  IF result # Null /\ result.sessionId # Null
        THEN [loaded EXCEPT !.sessionId = result.sessionId]
        ELSE loaded

\* extractCookies(domain) at t under consent: getAll tells whether it went on
\* to chrome.cookies.getAll
extractCookies(domain, consent, t) ==
  [called |-> TRUE, at |-> t, domain |-> domain, consent |-> consent,
   getAll |-> consent.granted /\ ("*" \in consent.domains \/ domain \in consent.domains)]

\* shareCookies(domain) at t: the last call of extractCookies after it
shareCookies(domain, session, consent, t, before) ==
  IF session = Null THEN before ELSE extractCookies(domain, consent, t)

\* the least time after t at which the hourly check runs
NextCleanup(t) == startedAt + ((t - startedAt) \div CleanupInterval + 1) * CleanupInterval
\* the hourly check is due and finds the consent expired
CleanupDue ==
  /\ now > startedAt
  /\ (now - startedAt) % CleanupInterval = 0
  /\ Expired(userConsent, now)

Completed(name) ==
  [name |-> name, sessionId |-> sessionId, count |-> operation.count + 1,
   restarts |-> operation.restarts]

notCookieVars == <<scenario, detectedVideos, groupedVideos, lastPass, passThrew, backendVars,
                   keyVars, categoryVars, urlVars, pageVars, pendingVars, dialogVars, messageVars>>

\* the page domains of the tabs, and the domain lists a consent is asked for
TabDomains == {"cdn.x.com", "a-b.io"}
ConsentDomains == { {"*"}, {"cdn.x.com"} }
NoTab == ""

\* the message grantConsent; tab is the domain of the active tab, NoTab when
\* there is none
GrantConsent(domains, tab) ==
  /\ scenario = "cookies"
  /\ operation.count < MaxOperations
  /\ LET consent == [granted |-> TRUE, domains |-> domains, timestamp |-> Date(now),
                     expiresAt |-> Date(now + ConsentLifetime)]
         session == SessionId(now)
     IN  /\ userConsent' = consent
         /\ sessionId' = session
         /\ storage' = [userConsent |-> consent, sessionId |-> session]
         /\ cookieCall' = IF tab = NoTab THEN cookieCall
                          ELSE shareCookies(tab, session, consent, now, cookieCall)
  /\ operation' = Completed("grantConsent")
  /\ UNCHANGED <<now, startedAt, revokePosts, notCookieVars>>

\* the message revokeConsent
RevokeConsent ==
  /\ scenario = "cookies"
  /\ operation.count < MaxOperations
  /\ userConsent' = clearConsent.userConsent
  /\ sessionId' = clearConsent.sessionId
  /\ storage' = clearConsent.storage
  /\ revokePosts' = IF clearConsent.sessionId # Null
                      THEN Append(revokePosts, [sessionId |-> clearConsent.sessionId])
                      ELSE revokePosts
  /\ operation' = Completed("revokeConsent")
  /\ UNCHANGED <<now, startedAt, cookieCall, notCookieVars>>

\* the hourly check, when it finds the consent expired
HourlyCleanup ==
  /\ scenario = "cookies"
  /\ CleanupDue
  /\ userConsent' = clearConsent.userConsent
  /\ sessionId' = clearConsent.sessionId
  /\ storage' = clearConsent.storage
  /\ operation' = Completed("cleanup")
  /\ UNCHANGED <<now, startedAt, revokePosts, cookieCall, notCookieVars>>

\* a tab is updated or activated, or the half-hourly refresh runs: domain is
\* the domain of the page of the tab
CaptureTabCookies(domain) ==
  /\ scenario = "cookies"
  /\ userConsent.granted
  /\ cookieCall' = shareCookies(domain, sessionId, userConsent, now, cookieCall)
  /\ UNCHANGED <<now, sessionId, userConsent, storage, startedAt, revokePosts, operation,
                 notCookieVars>>

\* the message shareCookies
ShareCookies(domain) ==
  /\ scenario = "cookies"
  /\ cookieCall' = shareCookies(domain, sessionId, userConsent, now, cookieCall)
  /\ UNCHANGED <<now, sessionId, userConsent, storage, startedAt, revokePosts, operation,
                 notCookieVars>>

\* the browser restarts the background script: the constructor, and
\* loadConsent on what chrome.storage.local holds
Restart ==
  /\ scenario = "cookies"
  /\ operation.count < MaxOperations
  /\ LET loaded == loadConsent(constructor(storage), now)
     IN  /\ userConsent' = loaded.userConsent
         /\ sessionId' = loaded.sessionId
         /\ storage' = loaded.storage
  /\ startedAt' = now
  /\ operation' = [Completed("loadConsent") EXCEPT !.restarts = @ + 1]
  /\ UNCHANGED <<now, revokePosts, cookieCall, notCookieVars>>

\* time passes up to the reading t; no hourly check that would clear the
\* consent is passed over
CookieAdvance(t) ==
  /\ scenario = "cookies"
  /\ t > now
  /\ ~CleanupDue
  /\ userConsent.expiresAt # Null =>
       t <= NextCleanup(IF userConsent.expiresAt.time > now
                          THEN userConsent.expiresAt.time ELSE now)
  /\ now' = t
  /\ UNCHANGED <<cookieVars, notCookieVars>>

NextCookies ==
  \/ \E domains \in ConsentDomains, tab \in TabDomains \cup {NoTab} : GrantConsent(domains, tab)
  \/ RevokeConsent
  \/ HourlyCleanup
  \/ \E domain \in TabDomains : CaptureTabCookies(domain)
  \/ \E domain \in TabDomains : ShareCookies(domain)
  \/ Restart
  \/ \E t \in CookieClock : CookieAdvance(t)

SpecCookies == InitCookies /\ [][NextCookies]_vars

\* ------------------------------------------------------------------------
\* StreamAnalyzer: the cache and the analyses in progress
\* ------------------------------------------------------------------------
\* ANALYSIS_CONFIG.MANIFEST_CACHE_DURATION, in ms
MANIFEST_CACHE_DURATION == 300000

AnalyzedVideoIds == {"video_aHR0cHM6Ly9j", "video_0"}

notPendingVars == <<scenario, detectedVideos, groupedVideos, lastPass, passThrew, backendVars,
                    keyVars, categoryVars, urlVars, pageVars, cookieVars, dialogVars, messageVars>>

\* the analyses of videoId that performVideoAnalysis has not finished
Running(videoId) == { a \in inFlight : a.videoId = videoId }

\* analyzeVideo({id: videoId}) up to its first await, with the cache as the
\* caller left it
analyzeVideo(videoId, cache) ==
  LET running == Cardinality(Running(videoId))
      call(did, started) == [called |-> TRUE, videoId |-> videoId, running |-> running,
                             did |-> did, started |-> started]
  IN  IF videoId \in DOMAIN cache /\ now - cache[videoId] < MANIFEST_CACHE_DURATION
        THEN /\ analysisCall' = call("cached", analysisCall.started)
             /\ UNCHANGED <<pendingAnalysis, inFlight>>
        ELSE IF videoId \in DOMAIN pendingAnalysis
          THEN /\ analysisCall' = call("joined", analysisCall.started)
               /\ UNCHANGED <<pendingAnalysis, inFlight>>
          ELSE LET promise == analysisCall.started + 1
               IN  /\ analysisCall.started < MaxAnalyses
                   /\ inFlight' = inFlight \cup {[promise |-> promise, videoId |-> videoId]}
                   /\ pendingAnalysis' = MapPut(pendingAnalysis, videoId, promise)
                   /\ analysisCall' = call("started", promise)

AnalyzeVideo(videoId) ==
  /\ scenario = "pending"
  /\ analyzeVideo(videoId, analysisCache)
  /\ UNCHANGED <<now, analysisCache, notPendingVars>>

ForceAnalyze(videoId) ==
  /\ scenario = "pending"
  /\ analysisCache' = Delete(analysisCache, videoId)
  /\ analyzeVideo(videoId, analysisCache')
  /\ UNCHANGED <<now, notPendingVars>>

ClearCache ==
  /\ scenario = "pending"
  /\ analysisCache' = NoEntries
  /\ pendingAnalysis' = NoEntries
  /\ UNCHANGED <<now, inFlight, analysisCall, notPendingVars>>

\* performVideoAnalysis resolves the promise of analysis a, and the call of
\* analyzeVideo that started it goes on after its await
AnalysisResolves(a) ==
  /\ scenario = "pending"
  /\ a \in inFlight
  /\ inFlight' = inFlight \ {a}
  /\ analysisCache' = MapPut(analysisCache, a.videoId, now)
  /\ pendingAnalysis' = Delete(pendingAnalysis, a.videoId)
  /\ UNCHANGED <<now, analysisCall, notPendingVars>>

\* the entries of the cache grow old
CacheAdvance ==
  /\ scenario = "pending"
  /\ now < MaxCachePeriods * MANIFEST_CACHE_DURATION
  /\ now' = now + MANIFEST_CACHE_DURATION
  /\ UNCHANGED <<pendingVars, notPendingVars>>

NextPending ==
  \/ \E videoId \in AnalyzedVideoIds : AnalyzeVideo(videoId)
  \/ \E videoId \in AnalyzedVideoIds : ForceAnalyze(videoId)
  \/ ClearCache
  \/ \E a \in inFlight : AnalysisResolves(a)
  \/ CacheAdvance

SpecPending == InitPending /\ [][NextPending]_vars

\* ------------------------------------------------------------------------
\* The content script: selecting a video, the consent dialog
\* ------------------------------------------------------------------------
notDialogVars == <<scenario, now, detectedVideos, groupedVideos, lastPass, passThrew, backendVars,
                   keyVars, categoryVars, urlVars, pageVars, cookieVars, pendingVars, messageVars>>

\* the ids selectVideo is called with; the first two are in detectedVideos
SelectableIds == {"video_0", "video_1"}
SelectedIds == SelectableIds \cup {"video_gone"}

\* both buttons start the processing
AlwaysProcess == [cancel |-> "process", consent |-> "process"]

\* what the click listeners of the two buttons of the dialog do
DialogHandlers == [cancel |-> "resolve", consent |-> "process"]

CookieRequest(selection) == [action |-> "getCookiesForDomain", selection |-> selection]
VideoPost(selection) == [action |-> "POST", selection |-> selection]

\* selectVideo(videoId): showConsentAndProcessVideo puts the dialog up
SelectVideo(videoId) ==
  /\ scenario = "dialog"
  /\ Len(selections) < MaxSelections
  /\ selections' = IF videoId \in SelectableIds
                     THEN Append(selections, [videoId |-> videoId, clicked |-> "none",
                                              step |-> "dialog"])
                     ELSE selections
  /\ UNCHANGED <<pageRequests, notDialogVars>>

\* a click on a button of the dialog of selection i; config tells whether
\* window.EXTENSION_CONFIG is there
Click(i, button, config) ==
  /\ scenario = "dialog"
  /\ i \in 1..Len(selections)
  /\ selections[i].step = "dialog"
  /\ IF DialogHandlers[button] = "process"
       THEN IF config
              THEN /\ selections' = [selections EXCEPT ![i].clicked = button,
                                                       ![i].step = "cookies"]
                   /\ pageRequests' = Append(pageRequests, CookieRequest(i))
              ELSE /\ selections' = [selections EXCEPT ![i].clicked = button,
                                                       ![i].step = "failed"]
                   /\ UNCHANGED pageRequests
       ELSE /\ selections' = [selections EXCEPT ![i].clicked = button, ![i].step = "resolved"]
            /\ UNCHANGED pageRequests
  /\ UNCHANGED notDialogVars

\* the background answers the cookie request of selection i, or the message
\* fails, and sendVideoToServerWithCookies runs up to its POST: hasUrl tells
\* whether it finds a video URL, reachable whether the server answers its GET
CookiesArrive(i, hasUrl, reachable) ==
  /\ scenario = "dialog"
  /\ i \in 1..Len(selections)
  /\ selections[i].step = "cookies"
  /\ IF hasUrl /\ reachable
       THEN /\ selections' = [selections EXCEPT ![i].step = "posted"]
            /\ pageRequests' = Append(pageRequests, VideoPost(i))
       ELSE /\ selections' = [selections EXCEPT ![i].step = "failed"]
            /\ UNCHANGED pageRequests
  /\ UNCHANGED notDialogVars

\* the backend answers the POST of selection i, or it fails
PostCompletes(i, ok) ==
  /\ scenario = "dialog"
  /\ i \in 1..Len(selections)
  /\ selections[i].step = "posted"
  /\ selections' = [selections EXCEPT ![i].step = IF ok THEN "resolved" ELSE "failed"]
  /\ UNCHANGED <<pageRequests, notDialogVars>>

NextDialog ==
  \/ \E videoId \in SelectedIds : SelectVideo(videoId)
  \/ \E i \in 1..MaxSelections, button \in {"cancel", "consent"}, config \in BOOLEAN :
       Click(i, button, config)
  \/ \E i \in 1..MaxSelections, hasUrl \in BOOLEAN, reachable \in BOOLEAN :
       CookiesArrive(i, hasUrl, reachable)
  \/ \E i \in 1..MaxSelections, ok \in BOOLEAN : PostCompletes(i, ok)

SpecDialog == InitDialog /\ [][NextDialog]_vars

\* ------------------------------------------------------------------------
\* The background script: the video managers and the onMessage listener
\* ------------------------------------------------------------------------
notMessageVars == <<scenario, now, detectedVideos, groupedVideos, lastPass, passThrew,
                    backendVars, keyVars, categoryVars, urlVars, pageVars, cookieVars,
                    pendingVars, dialogVars>>

\* the methods an object finds on each prototype and on those above it
MethodsOf ==
  [ VideoManager |-> {"handleVideosDetected", "handleVideoSelected", "getTabVideos",
                      "updateBadge", "clearTabData"},
    EnhancedVideoManager |-> {"handleVideosDetected", "handleVideoSelected", "getTabVideos",
                              "updateBadge", "clearTabData", "handleStreamAnalyzed"} ]

\* the prototype of enhancedVideoManager once the script has run:
\* new EnhancedVideoManager(), then Object.setPrototypeOf(enhancedVideoManager,
\* VideoManager.prototype)
PrototypeOfManager == "VideoManager"

\* sender.tab?.id of a message that comes from no tab
NoSenderTab == 0
SenderTabs == Tabs \cup {NoSenderTab}
MessageVideoIds == {"video_0", "video_1"}

MessageError(text) == [error |-> text]
NoTabId == MessageError("No tab ID available")
\* the message of the TypeError of a call of a method the object has not
NotAFunction(method) == MessageError("enhancedVideoManager." \o method \o " is not a function")

Answered(action, tabId, videoId, answer) ==
  [action |-> action, tabId |-> tabId, videoId |-> videoId, response |-> answer]

\* case 'videosDetected': handleVideosDetected
VideosDetected(tabId, count) ==
  /\ scenario = "messages"
  /\ IF "handleVideosDetected" \notin MethodsOf[PrototypeOfManager]
       THEN /\ lastMessage' = Answered("videosDetected", tabId, "", NotAFunction("handleVideosDetected"))
            /\ UNCHANGED tabVideoCount
       ELSE IF tabId = NoSenderTab
         THEN /\ lastMessage' = Answered("videosDetected", tabId, "", NoTabId)
              /\ UNCHANGED tabVideoCount
         ELSE /\ tabVideoCount' = MapPut(tabVideoCount, tabId, count)
              /\ lastMessage' = Answered("videosDetected", tabId, "",
                                     [success |-> TRUE, videosStored |-> count])
  /\ UNCHANGED <<selectedVideos, streamAnalysisResults, notMessageVars>>

\* case 'videoSelected': handleVideoSelected
VideoSelected(tabId, videoId) ==
  /\ scenario = "messages"
  /\ IF "handleVideoSelected" \notin MethodsOf[PrototypeOfManager]
       THEN /\ lastMessage' = Answered("videoSelected", tabId, videoId,
                                   NotAFunction("handleVideoSelected"))
            /\ UNCHANGED selectedVideos
       ELSE IF tabId = NoSenderTab
         THEN /\ lastMessage' = Answered("videoSelected", tabId, videoId, NoTabId)
              /\ UNCHANGED selectedVideos
         ELSE /\ selectedVideos' = MapPut(selectedVideos, tabId, videoId)
              /\ lastMessage' = Answered("videoSelected", tabId, videoId,
                                     [success |-> TRUE, videoSelected |-> videoId])
  /\ UNCHANGED <<tabVideoCount, streamAnalysisResults, notMessageVars>>

\* case 'streamAnalyzed': handleStreamAnalyzed, and the catch of the listener
\* when the call throws
StreamAnalyzed(tabId, videoId, downloadable) ==
  /\ scenario = "messages"
  /\ IF "handleStreamAnalyzed" \notin MethodsOf[PrototypeOfManager]
       THEN /\ lastMessage' = Answered("streamAnalyzed", tabId, videoId,
                                   NotAFunction("handleStreamAnalyzed"))
            /\ UNCHANGED streamAnalysisResults
       ELSE IF tabId = NoSenderTab
         THEN /\ lastMessage' = Answered("streamAnalyzed", tabId, videoId, NoTabId)
              /\ UNCHANGED streamAnalysisResults
         ELSE /\ streamAnalysisResults' =
                   MapPut(streamAnalysisResults, videoId,
                          [tabId |-> tabId, downloadable |-> downloadable, timestamp |-> now])
              /\ lastMessage' = Answered("streamAnalyzed", tabId, videoId,
                                     [success |-> TRUE, analysisStored |-> TRUE])
  /\ UNCHANGED <<tabVideoCount, selectedVideos, notMessageVars>>

\* tabs.onRemoved: clearTabData, as the prototype of the manager has it
TabRemoved(tabId) ==
  /\ scenario = "messages"
  /\ tabVideoCount' = Delete(tabVideoCount, tabId)
  /\ selectedVideos' = Delete(selectedVideos, tabId)
  /\ streamAnalysisResults' =
       IF PrototypeOfManager = "EnhancedVideoManager"
         THEN [ videoId \in { v \in DOMAIN streamAnalysisResults :
                                streamAnalysisResults[v].tabId # tabId } |->
                  streamAnalysisResults[videoId] ]
         ELSE streamAnalysisResults
  /\ UNCHANGED <<lastMessage, notMessageVars>>

NextMessages ==
  \/ \E tabId \in SenderTabs, count \in 1..MaxReported : VideosDetected(tabId, count)
  \/ \E tabId \in SenderTabs, videoId \in MessageVideoIds : VideoSelected(tabId, videoId)
  \/ \E tabId \in SenderTabs, videoId \in MessageVideoIds, downloadable \in BOOLEAN :
       StreamAnalyzed(tabId, videoId, downloadable)
  \/ \E tabId \in Tabs : TabRemoved(tabId)

SpecMessages == InitMessages /\ [][NextMessages]_vars

\* ------------------------------------------------------------------------
\* Properties
\* ------------------------------------------------------------------------
\* the captured streams the content script holds
CapturedNow == CapturedStreamsOf(detectedVideos)

\* an aggregation pass has handed its list to the UI
PassDone == lastPass # "none"

\* the places <<group, position>> of a group list
Places(groups) ==
  UNION { { <<g, j>> : j \in DOMAIN groups[g].streams } : g \in DOMAIN groups }

\* the number of places at which groups holds the stream (or entry) x
Occurrences(groups, x) ==
  Cardinality({ p \in Places(groups) : groups[p[1]].streams[p[2]] = x })

\* the URL is one new URL accepts
WellFormed(url) == url # <<>> /\ url \notin MalformedUrls

\* C1: after every aggregation pass (banner or dialog) each captured stream
\* is at exactly one place of the group list, and the groups' stream counts
\* add up to the number of captured streams.
C1_EveryStreamInOneGroup ==
  PassDone =>
    /\ \A i \in DOMAIN CapturedNow : Occurrences(groupedVideos, CapturedNow[i]) = 1
    /\ Cardinality(Places(groupedVideos)) = Len(CapturedNow)

\* three captured streams have gone to the dialog in two groups
C1_Witness ==
  /\ lastPass = "dialog"
  /\ Len(CapturedNow) = 3
  /\ Len(groupedVideos) = 2

\* the pairs /<id>/<q1>/chunklist.m3u8, /<id>/<q2>/chunklist.m3u8 of one host
\* and one id, q1 # q2
QualityVariantPairs ==
  { <<QualityVariant(h, id, q1), QualityVariant(h, id, q2)>> :
      h \in Hosts, id \in VideoIds, q1 \in QualityDirs, q2 \in QualityDirs } \
  { <<u, u>> : u \in QualityVariants }

\* the two calls on record are for such a pair
QualityVariantCalls ==
  /\ keyCalls[1].called
  /\ keyCalls[2].called
  /\ <<keyCalls[1].url, keyCalls[2].url>> \in QualityVariantPairs

\* C2: two quality variants of one video on one host get the same grouping
\* key, from content.js and from process.utils alike.
C2_QualityVariantsShareKey ==
  QualityVariantCalls =>
    /\ keyCalls[1].key = keyCalls[2].key
    /\ keyCalls[1].backendKey = keyCalls[2].backendKey

\* the hd and the 4k variant of one video were keyed, a millisecond apart
C2_Witness ==
  /\ QualityVariantCalls
  /\ keyCalls[1].url = QualityVariant(Host_ab, Seg_abc12345, Seg_hd)
  /\ keyCalls[2].url = QualityVariant(Host_ab, Seg_abc12345, Seg_4k)
  /\ keyCalls[1].at # keyCalls[2].at
  /\ ~keyCalls[2].key.threw

\* a group list as the keys and the member URLs of its groups, in order
ExtensionGrouping(groups) ==
  [ g \in DOMAIN groups |->
      <<groups[g].groupingKey,
        [ j \in DOMAIN groups[g].streams |-> groups[g].streams[j].src ]>> ]

BackendGrouping(groups) ==
  [ g \in DOMAIN groups |->
      <<groups[g].groupingKey,
        [ j \in DOMAIN groups[g].streams |-> groups[g].streams[j].url ]>> ]

\* the m3u8Urls of a request as the captured streams of the content script
AsCapturedStreams(m3u8Urls) ==
  [ k \in DOMAIN m3u8Urls |->
      [id |-> StreamId(k), src |-> m3u8Urls[k].url,
       domain |-> m3u8Urls[k].domain, category |-> "captured"] ]

\* the backend has answered a request with a videoUrl and a non-empty m3u8Urls
AnsweredM3u8Request ==
  /\ response.status # 0
  /\ request.hasVideoUrl
  /\ Len(request.m3u8Urls) > 0

\* C3: for the URL list of a request, the groups in the backend's response
\* are the groups of the extension's pass over the same list: the same keys,
\* members and order.
C3_BackendMatchesExtension ==
  AnsweredM3u8Request =>
    BackendGrouping(response.groupedVideos) =
      ExtensionGrouping(
        AggregateStreams(AsCapturedStreams(request.m3u8Urls),
                         [k \in DOMAIN request.m3u8Urls |-> now]).value)

\* C4: a request with a videoUrl and a non-empty m3u8Urls is answered 200,
\* every entry is in exactly one group of groupedVideos, groupedVideoCount
\* is the number of groups and originalM3U8Count the number of entries.
C4_GroupedResponse ==
  AnsweredM3u8Request =>
    /\ response.status = 200
    /\ \A k \in DOMAIN request.m3u8Urls :
         Occurrences(response.groupedVideos, request.m3u8Urls[k]) =
           Cardinality({ n \in DOMAIN request.m3u8Urls :
                           request.m3u8Urls[n] = request.m3u8Urls[k] })
    /\ Cardinality(Places(response.groupedVideos)) = Len(request.m3u8Urls)
    /\ response.groupedVideoCount = Len(response.groupedVideos)
    /\ response.originalM3U8Count = Len(request.m3u8Urls)

\* the well-formed members of a group
WellFormedMembers(group) == SelectSeq(group.streams, LAMBDA s : WellFormed(s.src))

\* the pass over the captured streams without the malformed ones
PassWithoutMalformed ==
  LET kept == SelectSeq(CapturedNow, LAMBDA s : s.src \notin MalformedUrls)
  IN AggregateStreams(kept, [k \in DOMAIN kept |-> now])

\* C5: no aggregation pass throws, and after a pass every group with
\* well-formed members has, in the pass over the list without its malformed
\* entries, a group of the same key with the same well-formed members.
C5_MalformedLeaveOthersAlone ==
  /\ ~passThrew
  /\ PassDone =>
       /\ ~PassWithoutMalformed.threw
       /\ \A g \in DOMAIN groupedVideos :
            WellFormedMembers(groupedVideos[g]) # <<>> =>
              \E h \in DOMAIN PassWithoutMalformed.value :
                /\ PassWithoutMalformed.value[h].groupingKey = groupedVideos[g].groupingKey
                /\ WellFormedMembers(PassWithoutMalformed.value[h]) =
                     WellFormedMembers(groupedVideos[g])

\* a pass has grouped two quality variants of a video with a malformed URL
\* between them
C5_Witness ==
  /\ PassDone
  /\ Len(CapturedNow) = 3
  /\ CapturedNow[1].src = Url_variant720
  /\ CapturedNow[2].src \in MalformedUrls
  /\ CapturedNow[3].src = Url_variant1080
  /\ Len(groupedVideos) = 2

\* C6: after a pass, a stream with a malformed URL is the only member of
\* its group.
C6_MalformedAlone ==
  PassDone =>
    \A g \in DOMAIN groupedVideos :
      (\E j \in DOMAIN groupedVideos[g].streams :
         groupedVideos[g].streams[j].src \in MalformedUrls)
      => Len(groupedVideos[g].streams) = 1

\* a pass runs again over the list of the pass before it
RepeatedPass ==
  /\ PassDone
  /\ lastPass' = "dialog"
  /\ detectedVideos' = detectedVideos

\* C7, as stated: a pass over the list of the pass before it hands over the
\* same group list.
C7_RepeatedPassSameOutput == [][RepeatedPass => groupedVideos' = groupedVideos]_vars

\* C7, amended: the same, for lists that hold no malformed URL.
C7_RepeatedPassSameOutputWellFormed ==
  [][ (RepeatedPass /\ \A i \in DOMAIN CapturedNow : CapturedNow[i].src \notin MalformedUrls)
      => groupedVideos' = groupedVideos ]_vars

\* the dialog has received the groups of three streams, none malformed, after
\* the clock has moved
C7_Witness ==
  /\ lastPass = "dialog"
  /\ now = MaxClock
  /\ Len(CapturedNow) = 3
  /\ \A i \in DOMAIN CapturedNow : CapturedNow[i].src \notin MalformedUrls
  /\ Len(groupedVideos) = 2

\* the two calls on record are for one well-formed URL
SameUrlCalls ==
  /\ keyCalls[1].called
  /\ keyCalls[2].called
  /\ keyCalls[1].url = keyCalls[2].url
  /\ WellFormed(keyCalls[1].url)

\* C8: two calls with one well-formed URL return the same key, whatever the
\* clock reads at each call and whatever was called before; so do the calls
\* of process.utils.
C8_SameUrlSameKey ==
  SameUrlCalls =>
    /\ keyCalls[1].key = keyCalls[2].key
    /\ keyCalls[1].backendKey = keyCalls[2].backendKey

\* one URL was keyed twice, a millisecond apart
C8_Witness ==
  /\ SameUrlCalls
  /\ keyCalls[1].url = Url_timestamp
  /\ keyCalls[1].at # keyCalls[2].at

\* the position in the captured list of the first stream of a group
FirstSeenAt(group) == CHOOSE i \in DOMAIN CapturedNow : CapturedNow[i] = group.streams[1]

\* C9: after a pass the group list is in non-increasing order of stream
\* count, and groups of equal count are in the order in which their first
\* streams are in the input.
C9_SortedByStreamCount ==
  PassDone =>
    \A g \in DOMAIN groupedVideos, h \in DOMAIN groupedVideos :
      g < h =>
        \/ Len(groupedVideos[g].streams) > Len(groupedVideos[h].streams)
        \/ /\ Len(groupedVideos[g].streams) = Len(groupedVideos[h].streams)
           /\ FirstSeenAt(groupedVideos[g]) < FirstSeenAt(groupedVideos[h])

\* groups that came in with 1, 3 and 2 streams are listed as 3, 2, 1
C9_Witness ==
  /\ PassDone
  /\ Len(groupedVideos) = 3
  /\ Len(groupedVideos[1].streams) = 3
  /\ Len(groupedVideos[2].streams) = 2
  /\ Len(groupedVideos[3].streams) = 1
  /\ FirstSeenAt(groupedVideos[3]) = 1
  /\ FirstSeenAt(groupedVideos[1]) = 2

\* computedStyle.display / visibility let the element show
Visible(element) == element.display # "none" /\ element.visibility # "hidden"

\* C10, as stated: categorizeVideo returns 'hidden' exactly when the element
\* is not visible or its width or height is 0.
C10_HiddenIffInvisibleOrZero ==
  categorized.done =>
    (categorized.category = "hidden" <=>
       \/ ~Visible(categorized.element)
       \/ categorized.element.width = 0
       \/ categorized.element.height = 0)

\* C10, amended: categorizeVideo returns 'hidden' exactly when the element is
\* not visible or its width or height is below 100.
C10_HiddenIffInvisibleOrSmall ==
  categorized.done =>
    (categorized.category = "hidden" <=>
       \/ ~Visible(categorized.element)
       \/ categorized.element.width < 100
       \/ categorized.element.height < 100)

\* a visible 50 x 50 element was categorized
C10_Witness ==
  /\ categorized.done
  /\ Visible(categorized.element)
  /\ categorized.element.width = 50
  /\ categorized.element.height = 50

\* ad keywords in the element's class, id or parent class
AdKeywordMatch(element) == hasAdKeywords(element)

\* C11: a visible element without ad keywords that is wider than 400, higher
\* than 200, has controls and is playing is categorized 'main', with or
\* without autoplay and wherever it is in the viewport.
C11_PlayingLargeWithControlsIsMain ==
  ( /\ categorized.done
    /\ categorized.flags
    /\ Visible(categorized.element)
    /\ ~AdKeywordMatch(categorized.element)
    /\ categorized.element.width > 400
    /\ categorized.element.height > 200
    /\ categorized.element.controls
    /\ ~categorized.element.paused )
  => categorized.category = "main"

\* a playing 640 x 360 player with controls and autoplay at the right edge of
\* the viewport was categorized
C11_Witness ==
  /\ categorized.done
  /\ categorized.flags
  /\ Visible(categorized.element)
  /\ ~AdKeywordMatch(categorized.element)
  /\ categorized.element.width = 640
  /\ categorized.element.height = 360
  /\ categorized.element.left = 900
  /\ categorized.element.controls
  /\ categorized.element.autoplay
  /\ ~categorized.element.paused

NameCall == nameCalls[2]

\* C13: extractVideoNameFromGroupingKey returns a non-empty string, in
\* content.js and in process.utils, for every grouping key and stream list.
C13_NameNeverEmpty ==
  NameCall.called => (NameCall.name # <<>> /\ NameCall.backendName # <<>>)

\* the key begins with the host name and a hyphen
HasHostPrefix(key, host) ==
  /\ host # <<>>
  /\ Len(key) > Len(host)
  /\ SubSeq(key, 1, Len(host) + 1) = host \o <<"-">>

\* what is left of the key without the host name and the hyphen
RestAfterHost(key, host) == SubSeq(key, Len(host) + 2, Len(key))

\* the cleanup of the fallback: separators to spaces, extension cut, trimmed,
\* "Video Stream" if nothing is left
CleanOrDefault(s) == IF CleanName(s) # <<>> THEN CleanName(s) ELSE Str_VideoStream

\* the latest call named a group of one stream with a well-formed URL none of
\* whose path segments qualifies as a name: the name comes from the key
NamedFromKey ==
  /\ NameCall.called
  /\ NameCall.urls = <<NameCall.url>>
  /\ domainOf[NameCall.url] # <<>>
  /\ MeaningfulSegment(SegmentsOfUrl(NameCall.url)) = 0

\* C14: when the name comes from the grouping key, it is the cleaned key
\* without the leading host name and hyphen, and the host name is not part
\* of it.
C14_FallbackStripsHost ==
  NamedFromKey =>
    /\ HasHostPrefix(NameCall.groupingKey, domainOf[NameCall.url]) =>
         NameCall.name =
           CleanOrDefault(RestAfterHost(NameCall.groupingKey, domainOf[NameCall.url]))
    /\ ~Includes(NameCall.name, domainOf[NameCall.url])

\* the host of the URL a key was made from ("unknown" for a malformed URL)
KeyHost(url) == IF domainOf[url] # <<>> THEN domainOf[url] ELSE Str_unknown

\* C15: called without streams, extractVideoNameFromGroupingKey returns, for
\* a key <host>-<rest>, the cleaned <rest>; in content.js and in process.utils.
C15_NameFromKeyAlone ==
  (NameCall.called /\ NameCall.urls = <<>>) =>
    /\ HasHostPrefix(NameCall.groupingKey, KeyHost(NameCall.url)) =>
         NameCall.name =
           CleanOrDefault(RestAfterHost(NameCall.groupingKey, KeyHost(NameCall.url)))
    /\ HasHostPrefix(NameCall.backendGroupingKey, KeyHost(NameCall.url)) =>
         NameCall.backendName =
           CleanOrDefault(RestAfterHost(NameCall.backendGroupingKey, KeyHost(NameCall.url)))

\* the latest call of getVideoGroupingKey and the one before it
KeyCall  == keyCalls[2]
PrevCall == keyCalls[1]

\* the two calls on record are for /<dirA>/<manifest> and /<dirB>/<manifest>
\* on one host, with one manifest name and different directories
ManifestPairCalls ==
  /\ PrevCall.called
  /\ KeyCall.called
  /\ <<PrevCall.url, KeyCall.url>> \in
       { <<Url_live, Url_showPlaylist>>, <<Url_showPlaylist, Url_live>>,
         <<Url_liveChunklist, Url_showChunklist>>, <<Url_showChunklist, Url_liveChunklist>> }

\* C16: the manifest name is not taken as the video id: the manifests of two
\* directories of one host get different keys, none of which is the host with
\* the manifest's name, in content.js and in process.utils.
C16_ManifestNameIsNoVideoId ==
  ManifestPairCalls =>
    /\ KeyCall.key # PrevCall.key
    /\ KeyCall.backendKey # PrevCall.backendKey
    /\ KeyCall.key.value \notin {Host_cdn \o <<"-">> \o Str_playlist, Host_cdn \o <<"-">> \o Str_chunklist}

\* the value strategy 4 captures in the URLs that reach it
CapturedTimestamp(url) ==
  IF url = Url_timestamp THEN SubSeq(Query_timestamp, 4, Len(Query_timestamp))
  ELSE IF url = Url_timestamp10 THEN SubSeq(Query_timestamp10, 4, Len(Query_timestamp10))
  ELSE SubSeq(Query_date, 4, Len(Query_date))

\* the latest call of content.js' getVideoGroupingKey reached strategy 4
TimestampCall == KeyCall.called /\ KeyCall.url \in TimestampUrls

\* C17, as stated: the key of strategy 4 is the host, a hyphen and the first
\* 8 characters of the captured timestamp or date.
C17_FirstEightOfTimestampOrDate ==
  TimestampCall =>
    KeyCall.key.value = Host_cdn \o <<"-">> \o SubSeq(CapturedTimestamp(KeyCall.url), 1, 8)

\* C17, amended: the first 8 digits of a timestamp, the whole of a date.
C17_FirstEightOfTimestampWholeDate ==
  TimestampCall =>
    KeyCall.key.value =
      Host_cdn \o <<"-">> \o (IF KeyCall.url = Url_date
                              THEN CapturedTimestamp(KeyCall.url)
                              ELSE SubSeq(CapturedTimestamp(KeyCall.url), 1, 8))

\* the URL with a 13-digit timestamp and the URL with a date were keyed, one
\* after the other
C17_Witness ==
  /\ PrevCall.called
  /\ PrevCall.url = Url_timestamp
  /\ TimestampCall
  /\ KeyCall.url = Url_date
  /\ ~KeyCall.key.threw


\* ------------------------------------------------------------------------
\* Claim C18
\* ------------------------------------------------------------------------
\* the latest request carried a videoUrl and no stream: m3u8Urls absent or []
RequestWithoutStreams ==
  /\ response.status # 0
  /\ request.hasVideoUrl
  /\ request.m3u8Urls = <<>>

\* stream messages arrived, none of a captured stream
NoStreamCaptured == CapturedStreamsOf(detectedVideos) = <<>>

\* C18: a request whose m3u8Urls is missing or empty is answered 200 with
\* groupedVideos = [] and groupedVideoCount = 0, and while the content script
\* holds no captured stream no grouped list has gone to the banner (or to
\* the dialog) and no pass has thrown.
C18_NoStreamsNoGroups ==
  /\ RequestWithoutStreams =>
       /\ response.status = 200
       /\ response.groupedVideos = <<>>
       /\ response.groupedVideoCount = 0
  /\ NoStreamCaptured =>
       /\ lastPass = "none"
       /\ groupedVideos = <<>>
       /\ ~passThrew

\* a request with m3u8Urls absent was answered, and updateGroupedStreamBanner
\* ran over two stored streams, neither of them captured
C18_Witness ==
  /\ RequestWithoutStreams
  /\ ~request.hasM3u8Urls
  /\ response.status = 200
  /\ Len(detectedVideos) = 2
  /\ NoStreamCaptured

\* ------------------------------------------------------------------------
\* Claim C19
\* ------------------------------------------------------------------------
\* the latest event closed the tab or took it to a new page
ClosedOrNavigated(event) ==
  \/ event.kind = "removed"
  \/ event.kind = "updated" /\ event.status = "loading" /\ event.hasUrl

\* streams holds nothing for the tab of the event and what it held for every
\* other tab
ClearedOnlyFor(event, before, after) ==
  /\ getTabStreams(after, event.tabId) = <<>>
  /\ \A other \in Tabs \ {event.tabId} :
       /\ getTabStreams(after, other) = getTabStreams(before, other)
       /\ other \in DOMAIN after <=> other \in DOMAIN before

\* C19: right after the tab-closed event of a tab, or its navigation event
\* (status 'loading' with a URL), getTabStreams of that tab is [] in the
\* background script and in NetworkMonitor, and the streams of every other
\* tab are the ones held before the event.
C19_TabStreamsCleared ==
  [][ ClosedOrNavigated(tabEvent') =>
        /\ ClearedOnlyFor(tabEvent', capturedStreams, capturedStreams')
        /\ ClearedOnlyFor(tabEvent', activeStreams, activeStreams') ]_vars

\* tab 1 navigated while it held two streams, and tab 2 still holds its own
C19_Witness ==
  /\ tabEvent.kind = "updated"
  /\ ClosedOrNavigated(tabEvent)
  /\ tabEvent.tabId = 1
  /\ tabEvent.held = 2
  /\ getTabStreams(capturedStreams, 1) = <<>>
  /\ Len(getTabStreams(capturedStreams, 2)) = 2

\* ------------------------------------------------------------------------
\* Claim C20
\* ------------------------------------------------------------------------
\* how many entries of streams are the n-th stream passed to handleStreamFound
TimesIn(streams, n) == Cardinality({ i \in DOMAIN streams : streams[i].n = n })

\* how many times the n-th stream was handed to analyzeTabStreams, and how
\* many of these under a tabId that is not its own
TimesAnalyzed(n) ==
  Cardinality({ p \in (DOMAIN tabAnalyses) \X (1..MaxStreams) :
                  /\ p[2] \in DOMAIN tabAnalyses[p[1]].streams
                  /\ tabAnalyses[p[1]].streams[p[2]].n = n })

AnalyzedUnderOwnTab ==
  \A j \in DOMAIN tabAnalyses : \A i \in DOMAIN tabAnalyses[j].streams :
    /\ tabAnalyses[j].streams[i].tabId = tabAnalyses[j].tabId
    /\ tabAnalyses[j].streams[i] = streamsFound[tabAnalyses[j].streams[i].n].stream

\* the calls that end a burst: no call follows within DebounceWait ms
BurstEnds ==
  { k \in DOMAIN streamsFound :
      \/ k = Len(streamsFound)
      \/ streamsFound[k + 1].at - streamsFound[k].at >= DebounceWait }

\* when the run of each burst is due
RunsDue == { streamsFound[k].at + DebounceWait : k \in BurstEnds }

RunTimes == { queueRuns[i] : i \in DOMAIN queueRuns }

\* no stream is lost or analyzed twice: it waits in the queue or was handed
\* to analyzeTabStreams, once in all
QueuedOrAnalyzedOnce ==
  /\ \A n \in DOMAIN streamsFound :
       TimesIn(analysisQueue, n) + TimesAnalyzed(n) = 1
  /\ AnalyzedUnderOwnTab

\* processAnalysisQueue ran once for every burst whose last call is more than
\* DebounceWait ms ago, at the time it was due, and at no other time
OneRunPerBurst ==
  /\ Len(queueRuns) = Cardinality(RunTimes)
  /\ { due \in RunsDue : due < now } \subseteq RunTimes
  /\ RunTimes \subseteq { due \in RunsDue : due <= now }
  /\ \A i \in DOMAIN tabAnalyses : tabAnalyses[i].at \in RunTimes

FirstScan == scanned.elements # <<>> /\ Len(detectedVideos) <= Len(scanned.elements)

\* C21: in one run of scanForVideos two elements at different scan indexes
\* never get the same id, so every valid element of the run is in
\* detectedVideos afterwards, under its own id.
C21_ScanIdsDistinct ==
  /\ \A i, j \in DOMAIN scanned.ids : i # j => scanned.ids[i] # scanned.ids[j]
  /\ \A k \in DOMAIN scanned.elements :
       ValidElement(scanned.elements[k]) =>
         \E v \in DOMAIN detectedVideos :
           /\ detectedVideos[v].id = scanned.ids[k]
           /\ detectedVideos[v].src = scanned.elements[k].src

\* ------------------------------------------------------------------------
\* Claim C28
\* ------------------------------------------------------------------------
\* the latest event is the tab-removed event of the tab
JustClosed(tabId) == tabEvent.kind = "removed" /\ tabEvent.tabId = tabId

\* C28: from the tab-removed event of a tab on, the background script holds
\* no captured stream under that tab, whatever event follows: the event that
\* comes after the tab-removed event leaves getTabStreams of the tab empty.
C28_ClosedTabStaysEmpty ==
  [][\A tabId \in Tabs :
       JustClosed(tabId) => getTabStreams(capturedStreams, tabId)' = <<>>]_vars

\* ------------------------------------------------------------------------
\* Claim C29
\* ------------------------------------------------------------------------
\* no tab's list in streams has two entries with one URL, and no list is kept
\* under a negative tab id
DistinctUrlsOfTabs(streams) ==
  \A tabId \in DOMAIN streams :
    /\ tabId >= 0
    /\ \A i, j \in DOMAIN streams[tabId] :
         i # j => streams[tabId][i].url # streams[tabId][j].url

\* C29: in every state the per-tab stream store, capturedStreams of the
\* background script and activeStreams of NetworkMonitor, has no list with
\* two entries of one URL and no list under a negative tab id.
C29_DistinctUrlsNoNegativeTab ==
  DistinctUrlsOfTabs(capturedStreams) /\ DistinctUrlsOfTabs(activeStreams)

\* ------------------------------------------------------------------------
\* Claim C30
\* ------------------------------------------------------------------------
FormatsOf(streams) == { streams[k].format : k \in DOMAIN streams }

\* C30: getBestQualityStream(tabId) returns null exactly when the tab has no
\* stream; otherwise it returns a stream of the tab's list: a manifest (HLS
\* or DASH) if the list has one, else a PROGRESSIVE stream if it has one,
\* else the first stream of the list.
C30_BestIsManifestThenProgressive ==
  bestStream.called =>
    LET streams == bestStream.streams
        result  == bestStream.result
    IN /\ result = Null <=> streams = <<>>
       /\ streams # <<>> =>
            /\ \E k \in DOMAIN streams : streams[k] = result
            /\ IF FormatsOf(streams) \cap {"HLS", "DASH"} # {}
               THEN result.format \in {"HLS", "DASH"}
               ELSE IF "PROGRESSIVE" \in FormatsOf(streams)
               THEN result.format = "PROGRESSIVE"
               ELSE result = streams[1]

\* the call read a list of a segment, a progressive file and a DASH manifest,
\* in this order, and returned an entry that is not the first
C30_Witness ==
  /\ bestStream.called
  /\ Len(bestStream.streams) = 3
  /\ bestStream.streams[1].format = "SEGMENTS"
  /\ bestStream.streams[2].format = "PROGRESSIVE"
  /\ bestStream.streams[3].format = "DASH"
  /\ bestStream.result = bestStream.streams[3]

\* C22: when revokeConsent is called while a session exists, a POST to
\* /api/extension/revoke carrying the id of that session has been issued by
\* the time revokeConsent completes.
C22_RevokeNotifiesServer ==
  (operation.name = "revokeConsent" /\ operation.sessionId # Null) =>
    (revokePosts # <<>> /\ revokePosts[Len(revokePosts)].sessionId = operation.sessionId)

\* C24: after every completed operation of the cookie manager (loadConsent at
\* startup, grantConsent, revokeConsent, the hourly cleanup), sessionId is
\* non-null only if userConsent.granted is true.
C24_SessionOnlyWithConsent ==
  sessionId # Null => userConsent.granted

\* C25: every call of extractCookies made later than userConsent.expiresAt is
\* rejected without calling chrome.cookies.getAll.
C25_NoCookiesAfterExpiry ==
  (cookieCall.called /\ Expired(cookieCall.consent, cookieCall.at)) => ~cookieCall.getAll

\* C23: at any time at most one performVideoAnalysis is in flight per videoId,
\* and a call of analyzeVideo for a videoId whose analysis is still running
\* joins it instead of starting a second one.
C23_OneAnalysisPerVideo ==
  /\ \A videoId \in AnalyzedVideoIds : Cardinality(Running(videoId)) <= 1
  /\ (analysisCall.called /\ analysisCall.running > 0) => analysisCall.did = "joined"

\* C26: for every video selection, the cookie request to the background and
\* the POST of the video payload are made only after the user clicked
\* 'Allow & Download' in the dialog of that selection; after a click on Cancel
\* neither request is ever made for it.
C26_RequestsOnlyAfterAllow ==
  /\ \A r \in 1..Len(pageRequests) :
       selections[pageRequests[r].selection].clicked = "consent"
  /\ \A i \in 1..Len(selections) :
       selections[i].clicked = "cancel" =>
         \A r \in 1..Len(pageRequests) : pageRequests[r].selection # i

\* one selection was cancelled, and both requests were made for another one
C26_Witness ==
  /\ \E i \in 1..Len(selections) : selections[i].clicked = "cancel"
  /\ \E r \in 1..Len(pageRequests), q \in 1..Len(pageRequests) :
       /\ pageRequests[r].action = "getCookiesForDomain"
       /\ pageRequests[q].action = "POST"
       /\ pageRequests[r].selection = pageRequests[q].selection

\* C27: a 'streamAnalyzed' message sent from a tab is handled by
\* handleStreamAnalyzed: the analysis is stored under its videoId and the
\* sender is answered {success: true, analysisStored: true}.
C27_StreamAnalyzedIsStored ==
  (lastMessage.action = "streamAnalyzed" /\ lastMessage.tabId # NoSenderTab) =>
    /\ lastMessage.response = [success |-> TRUE, analysisStored |-> TRUE]
    /\ lastMessage.videoId \in DOMAIN streamAnalysisResults
====
